---- MODULE Spec2Model ----
(***************************************************************************)
(* Model of the styberg-news main process (src/main.js): the two directory *)
(* handlers 'get-news-articles' and 'get-announcements', the share they    *)
(* read, the part of the JavaScript object model their code relies on, and *)
(* the filter of 'fetch-news'; and of the renderer: the forecast           *)
(* processing, the fetches, the error state and the scene selection of the *)
(* Weather component, and the lists, indexes, environment gate and timers  *)
(* of the StybergNews, Announcements and WorldNews components.             *)
(*                                                                         *)
(* A file name and a file's text are sequences of one-character strings,   *)
(* so that extname, basename, toLowerCase and trim are computed and not    *)
(* assumed.                                                                *)
(***************************************************************************)
EXTENDS Integers, Sequences, FiniteSets, TLC

VARIABLES
    fsNews,           \* listing of newsDir, in readdir order
    fsAnnouncements,  \* listing of announcementsDir, in readdir order
    objectPrototype,  \* enumerable properties added to Object.prototype
    reply,            \* settled promise of the last handler invocation
    now,              \* the clock, in seconds since the epoch
    forecastWeather,  \* Weather: data.list of the 'fetch-forecast' response
    forecast,         \* Weather: the forecast state of the component
    weatherPc,        \* Weather: "awaiting" the response or "processed" it
    articlesState,             \* StybergNews: the list
    currentArticleIndex,       \* StybergNews: the position shown
    announcementsState,        \* Announcements: the list
    currentAnnouncementIndex,  \* Announcements: the position shown
    worldArticles,             \* WorldNews: the list
    worldArticleIndex,         \* WorldNews: the position shown
    worldError,                \* WorldNews: the error state
    inFlight,         \* invocations of a channel that have not settled
    mounted,          \* whether the application is mounted
    isPackaged,       \* main process: app.isPackaged
    newsResponse,     \* main process: what the request of 'fetch-news' met
    environment,      \* WorldNews, Weather: the call of fetchEnvironment
    isDev,            \* WorldNews, Weather: the isDev state
    refreshTimers,    \* active refresh intervals of each component
    rotationTimers,   \* active rotation intervals of each component
    weather,          \* Weather: the weather state
    weatherError,     \* Weather: the error state
    failedSinceRefresh  \* Weather, history: fetchWeather caught a rejection
                        \* after the refresh interval last fired

mainVars == <<fsNews, fsAnnouncements, objectPrototype, reply>>

weatherVars == <<now, forecastWeather, forecast, weatherPc>>

kioskVars ==
    <<articlesState, currentArticleIndex, announcementsState, currentAnnouncementIndex,
      worldArticles, worldArticleIndex, worldError, inFlight, mounted>>

hostVars == <<isPackaged, newsResponse>>

effectVars == <<environment, isDev, refreshTimers, rotationTimers>>

weatherStateVars == <<weather, weatherError, failedSinceRefresh>>

vars == <<mainVars, weatherVars, kioskVars, hostVars, effectVars, weatherStateVars>>

\* ------------------------------------------------------------------ bounds

\* Number of files on the share, both directories together.
MaxFiles == 3

\* Number of items in the list of a forecast response.
MaxSamples == 5

\* Number of invocations in flight, all channels together.
MaxInFlight == 2

\* Number of articles in the data of a 'fetch-news' response.
MaxArticles == 3

\* ------------------------------------------------------- JavaScript values

\* The value of a property that was never written. The handlers only test such
\* values for truthiness, and a file name is never empty.
Undefined == <<>>

\* null, as the value of imagePath (a data URI starts with "data:").
Null == <<"null">>

Range(s) == {s[i] : i \in 1..Len(s)}

Max(S) == CHOOSE x \in S : \A y \in S : x >= y

UpperCase ==
    <<"A","B","C","D","E","F","G","H","I","J","K","L","M",
      "N","O","P","Q","R","S","T","U","V","W","X","Y","Z">>

LowerCase ==
    <<"a","b","c","d","e","f","g","h","i","j","k","l","m",
      "n","o","p","q","r","s","t","u","v","w","x","y","z">>

Digits == <<"0","1","2","3","4","5","6","7","8","9">>

\* The lower-case form of each upper-case letter.
LowerOf ==
    [c \in Range(UpperCase) |-> LowerCase[CHOOSE i \in 1..26 : UpperCase[i] = c]]

\* String.prototype.toLowerCase, one character.
toLowerChar(c) == IF c \in DOMAIN LowerOf THEN LowerOf[c] ELSE c

\* String.prototype.toLowerCase.
toLowerCase(s) == [i \in 1..Len(s) |-> toLowerChar(s[i])]

\* Characters String.prototype.trim removes.
WhiteSpace == {" ", "\t", "\n", "\r", "\f"}

\* String.prototype.trimStart.
RECURSIVE trimStart(_)
trimStart(s) ==
    IF s = <<>> \/ Head(s) \notin WhiteSpace THEN s ELSE trimStart(Tail(s))

\* String.prototype.trimEnd.
RECURSIVE trimEnd(_)
trimEnd(s) ==
    IF s = <<>> \/ s[Len(s)] \notin WhiteSpace THEN s
    ELSE trimEnd(SubSeq(s, 1, Len(s) - 1))

\* String.prototype.trim: both ends, nothing inside.
trim(s) == trimEnd(trimStart(s))

\* path.extname of a directory entry (no separator, no drive): from the last
\* dot to the end; empty when there is no dot, when the only candidate dot is
\* the first character, and for "..".
extname(file) ==
    LET dots == {i \in 1..Len(file) : file[i] = "."}
    IN  IF dots = {} THEN <<>>
        ELSE LET startDot == Max(dots)
             IN  IF startDot = 1 THEN <<>>
                 ELSE IF file[1] = "." /\ startDot = 2 /\ Len(file) = 2 THEN <<>>
                 ELSE SubSeq(file, startDot, Len(file))

\* path.basename(file, suffix): the suffix is removed only when the name ends
\* with exactly these characters (the comparison is by character code).
basename(file, suffix) ==
    IF suffix = <<>> \/ Len(suffix) > Len(file) THEN file
    ELSE IF suffix = file THEN <<>>
    ELSE IF SubSeq(file, Len(file) - Len(suffix) + 1, Len(file)) = suffix
         THEN SubSeq(file, 1, Len(file) - Len(suffix))
         ELSE file

\* --------------------------------------------------------------- the share

a_txt == <<"a",".","t","x","t">>

a_jpg == <<"a",".","j","p","g">>

a_png == <<"a",".","p","n","g">>

a_JPG == <<"a",".","J","P","G">>

n10_txt == <<"1","0",".","t","x","t">>

n2_jpg == <<"2",".","j","p","g">>

x_md == <<"x",".","m","d">>

valueOf_txt == <<"v","a","l","u","e","O","f",".","t","x","t">>

proto_txt == <<"_","_","p","r","o","t","o","_","_",".","t","x","t">>

\* The entries that can appear in newsDir.
NewsFileNames ==
    {a_txt, a_jpg, a_png, a_JPG, n10_txt, n2_jpg, x_md, valueOf_txt, proto_txt}

\* What fs.promises.readFile(path, 'utf-8') yields for each text file of
\* newsDir; every other entry decodes to the empty string.
NewsFileText(file) ==
    CASE file = a_txt       -> <<" "," ","h","e","l","l","o"," ","\n">>
      [] file = n10_txt     -> <<"\t","\n">>
      [] file = valueOf_txt -> <<"v">>
      [] file = proto_txt   -> <<"p"," ","q","\r","\n">>
      [] OTHER              -> <<>>

\* ----------------------------------------------------- 'get-news-articles'

TxtExt == <<".","t","x","t">>

ImageExts ==
    { <<".","j","p","g">>, <<".","j","p","e","g">>, <<".","p","n","g">>,
      <<".","g","i","f">>, <<".","b","m","p">> }

\* The property names the handler writes, as object keys.
TextFileKey == <<"t","e","x","t","F","i","l","e">>

ImageFileKey == <<"i","m","a","g","e","F","i","l","e">>

NameKey(name) == IF name = "textFile" THEN TextFileKey ELSE ImageFileKey

\* The key whose lookup on a plain object yields Object.prototype itself.
ProtoKey == <<"_","_","p","r","o","t","o","_","_">>

\* The keys a plain object ({}) inherits from Object.prototype with a function
\* as value; none of them is enumerable.
ObjectPrototypeMembers ==
    { <<"c","o","n","s","t","r","u","c","t","o","r">>,
      <<"h","a","s","O","w","n","P","r","o","p","e","r","t","y">>,
      <<"i","s","P","r","o","t","o","t","y","p","e","O","f">>,
      <<"p","r","o","p","e","r","t","y","I","s","E","n","u","m","e","r","a","b","l","e">>,
      <<"t","o","L","o","c","a","l","e","S","t","r","i","n","g">>,
      <<"t","o","S","t","r","i","n","g">>,
      <<"v","a","l","u","e","O","f">>,
      <<"_","_","d","e","f","i","n","e","G","e","t","t","e","r","_","_">>,
      <<"_","_","d","e","f","i","n","e","S","e","t","t","e","r","_","_">>,
      <<"_","_","l","o","o","k","u","p","G","e","t","t","e","r","_","_">>,
      <<"_","_","l","o","o","k","u","p","S","e","t","t","e","r","_","_">> }

\* Object.prototype[name] for a property the handler may have added.
ProtoHas(proto, name) == \E j \in 1..Len(proto) : proto[j].name = name

ProtoGet(proto, name) ==
    IF ProtoHas(proto, name)
    THEN proto[CHOOSE j \in 1..Len(proto) : proto[j].name = name].value
    ELSE Undefined

HasOwn(fileGroups, key) == \E i \in 1..Len(fileGroups) : fileGroups[i].key = key

OwnIndex(fileGroups, key) ==
    CHOOSE i \in 1..Len(fileGroups) : fileGroups[i].key = key

\* fileGroups[baseName] with fileGroups = {}: an own property, or what the
\* prototype chain supplies.
GetGroup(fileGroups, proto, key) ==
    IF HasOwn(fileGroups, key) THEN "own"
    ELSE IF key = ProtoKey THEN "Object.prototype"
    ELSE IF key \in ObjectPrototypeMembers THEN "function"
    ELSE IF \E j \in 1..Len(proto) : NameKey(proto[j].name) = key THEN "string"
    ELSE "undefined"

\* Object.prototype.<name> = file: a new enumerable property, or a new value
\* for the one already there.
SetProtoProperty(proto, name, file) ==
    IF ProtoHas(proto, name)
    THEN [j \in 1..Len(proto) |->
             IF proto[j].name = name THEN [name |-> name, value |-> file]
             ELSE proto[j]]
    ELSE Append(proto, [name |-> name, value |-> file])

\* The write, by what fileGroups[baseName] is.
SetPropertyOf(target, fileGroups, proto, key, name, file) ==
    IF target = "own"
    THEN [groups |-> [fileGroups EXCEPT ![OwnIndex(fileGroups, key)][name] = file],
          proto |-> proto]
    ELSE IF target = "Object.prototype"
    THEN [groups |-> fileGroups, proto |-> SetProtoProperty(proto, name, file)]
    ELSE [groups |-> fileGroups, proto |-> proto]

\* fileGroups[baseName].<name> = file. A write to an inherited function lands
\* on that function and is never read back; a write to a primitive string is
\* dropped (the file is not in strict mode); a write through '__proto__' lands
\* on Object.prototype.
SetGroupProperty(fileGroups, proto, key, name, file) ==
    SetPropertyOf(GetGroup(fileGroups, proto, key), fileGroups, proto, key, name, file)

\* const ext = path.extname(file).toLowerCase();
FileExt(file) == toLowerCase(extname(file))

\* const baseName = path.basename(file, ext);
BaseName(file) == basename(file, FileExt(file))

\* if (!fileGroups[baseName]) { fileGroups[baseName] = {}; }
CreateGroup(fileGroups, proto, baseName) ==
    IF GetGroup(fileGroups, proto, baseName) = "undefined"
    THEN Append(fileGroups,
                [key |-> baseName, textFile |-> Undefined, imageFile |-> Undefined])
    ELSE fileGroups

\* if (ext === '.txt') { ... } else if ([...].includes(ext)) { ... }
AssignFile(fileGroups, proto, file, ext, baseName) ==
    IF ext = TxtExt
    THEN SetGroupProperty(fileGroups, proto, baseName, "textFile", file)
    ELSE IF ext \in ImageExts
    THEN SetGroupProperty(fileGroups, proto, baseName, "imageFile", file)
    ELSE [groups |-> fileGroups, proto |-> proto]

\* One iteration of the grouping loop, for the ext and baseName of the file.
GroupFileAs(fileGroups, proto, file, ext, baseName) ==
    AssignFile(CreateGroup(fileGroups, proto, baseName), proto, file, ext, baseName)

\* One iteration of the grouping loop.
GroupFile(fileGroups, proto, file) ==
    GroupFileAs(fileGroups, proto, file, FileExt(file), BaseName(file))

\* for (const file of files) { ... }
RECURSIVE GroupFiles(_, _, _, _)
GroupFilesFrom(files, i, step) == GroupFiles(files, i, step.groups, step.proto)

GroupFiles(files, i, fileGroups, proto) ==
    IF i > Len(files) THEN [groups |-> fileGroups, proto |-> proto]
    ELSE GroupFilesFrom(files, i + 1, GroupFile(fileGroups, proto, files[i]))

\* A digit string without leading zero is smaller when it is shorter, or of
\* the same length and smaller at the first differing digit.
DigitValue(c) == (CHOOSE i \in 1..10 : Digits[i] = c) - 1

DecimalLess(a, b) ==
    \/ Len(a) < Len(b)
    \/ /\ Len(a) = Len(b)
       /\ \E i \in 1..Len(a) :
              /\ DigitValue(a[i]) < DigitValue(b[i])
              /\ \A j \in 1..(i - 1) : a[j] = b[j]

\* 2^32 - 2, the largest array index.
MaxArrayIndex == <<"4","2","9","4","9","6","7","2","9","4">>

\* An object key that is an array index: the canonical decimal form of an
\* integer in 0 .. 2^32 - 2.
IsArrayIndex(key) ==
    /\ Len(key) >= 1
    /\ \A i \in 1..Len(key) : key[i] \in Range(Digits)
    /\ (Len(key) = 1 \/ key[1] # "0")
    /\ (key = MaxArrayIndex \/ DecimalLess(key, MaxArrayIndex))

RECURSIVE SortIndexKeys(_)
SortIndexKeys(S) ==
    IF S = {} THEN <<>>
    ELSE LET least == CHOOSE k \in S : \A other \in S \ {k} : DecimalLess(k, other)
         IN  <<least>> \o SortIndexKeys(S \ {least})

CreationOrder(fileGroups) == [i \in 1..Len(fileGroups) |-> fileGroups[i].key]

IsNotArrayIndex(key) == ~IsArrayIndex(key)

\* The own keys as a map that keeps insertion order would enumerate them.
OwnPropertyKeysAsInserted(fileGroups) == CreationOrder(fileGroups)

\* The own keys of fileGroups in the order for-in visits them: array indices
\* in ascending numeric order, then the other keys in order of creation.
OwnPropertyKeys(fileGroups) ==
    SortIndexKeys({k \in Range(CreationOrder(fileGroups)) : IsArrayIndex(k)})
        \o SelectSeq(CreationOrder(fileGroups), IsNotArrayIndex)

\* for (const baseName in fileGroups): the own keys, then the enumerable
\* properties of Object.prototype that no own key shadows.
ForInKeys(fileGroups, proto) ==
    LET inherited == [j \in 1..Len(proto) |-> NameKey(proto[j].name)]
        NotShadowed(k) == ~HasOwn(fileGroups, k)
    IN  OwnPropertyKeys(fileGroups) \o SelectSeq(inherited, NotShadowed)

\* group.<name> for group = fileGroups[baseName]: the own property, else the
\* one inherited from Object.prototype (also when group is a primitive string).
GroupProperty(fileGroups, proto, key, name) ==
    IF HasOwn(fileGroups, key) /\ fileGroups[OwnIndex(fileGroups, key)][name] # Undefined
    THEN fileGroups[OwnIndex(fileGroups, key)][name]
    ELSE ProtoGet(proto, name)

\* mime.lookup(file) || 'application/octet-stream': by the characters after
\* the last dot, lower-cased.
MimeLookup(file) ==
    LET dots == {i \in 1..Len(file) : file[i] = "."}
        e == IF dots = {} THEN toLowerCase(file)
             ELSE toLowerCase(SubSeq(file, Max(dots) + 1, Len(file)))
    IN  CASE e = <<"j","p","g">>     -> "image/jpeg"
          [] e = <<"j","p","e","g">> -> "image/jpeg"
          [] e = <<"p","n","g">>     -> "image/png"
          [] e = <<"g","i","f">>     -> "image/gif"
          [] e = <<"b","m","p">>     -> "image/bmp"
          [] OTHER                   -> "application/octet-stream"

\* `data:${mimeType};base64,${imageBuffer.toString('base64')}`; the encoded
\* bytes are represented by the name of the file they were read from.
DataUri(file) == <<"data:", MimeLookup(file), ";base64,">> \o file

\* fs.promises.readFile succeeds for an entry of the directory that is a
\* readable regular file.
ReadFileOk(file, dir, unreadable) == file \in Range(dir) /\ file \notin unreadable

\* articles.push({ type: 'article', title: baseName, description, imagePath })
Article(title, description, imagePath) ==
    [type |-> "article", title |-> title, description |-> description,
     imagePath |-> imagePath]

\* The body of the emit loop for a group with these imageFile and textFile:
\* the article pushed (if any), or the read that rejected.
EmitGroupOf(key, imageFile, textFile, dir, unreadable) ==
    IF imageFile # Undefined /\ ~ReadFileOk(imageFile, dir, unreadable)
    THEN [thrown |-> TRUE, failedRead |-> imageFile, pushed |-> <<>>]
    ELSE IF textFile # Undefined /\ ~ReadFileOk(textFile, dir, unreadable)
    THEN [thrown |-> TRUE, failedRead |-> textFile, pushed |-> <<>>]
    ELSE IF textFile # Undefined /\ imageFile # Undefined
    THEN [thrown |-> FALSE, failedRead |-> Undefined,
          pushed |-> <<Article(key, trim(NewsFileText(textFile)), DataUri(imageFile))>>]
    ELSE IF textFile # Undefined
    THEN [thrown |-> FALSE, failedRead |-> Undefined,
          pushed |-> <<Article(key, trim(NewsFileText(textFile)), Null)>>]
    ELSE IF imageFile # Undefined
    THEN [thrown |-> FALSE, failedRead |-> Undefined,
          pushed |-> <<Article(key, <<>>, DataUri(imageFile))>>]
    ELSE [thrown |-> FALSE, failedRead |-> Undefined, pushed |-> <<>>]

\* One iteration of the emit loop.
EmitGroup(key, fileGroups, proto, dir, unreadable) ==
    EmitGroupOf(key, GroupProperty(fileGroups, proto, key, "imageFile"),
                GroupProperty(fileGroups, proto, key, "textFile"), dir, unreadable)

\* for (const baseName in fileGroups) { ... }: stops at the first rejected
\* read, with the articles pushed so far.
RECURSIVE EmitGroups(_, _, _, _, _, _, _)
EmitGroupsAfter(e, keys, i, articles, fileGroups, proto, dir, unreadable) ==
    IF e.thrown
    THEN [completion |-> "throw", articles |-> articles, failedRead |-> e.failedRead]
    ELSE EmitGroups(keys, i + 1, articles \o e.pushed, fileGroups, proto, dir,
                    unreadable)

EmitGroups(keys, i, articles, fileGroups, proto, dir, unreadable) ==
    IF i > Len(keys)
    THEN [completion |-> "normal", articles |-> articles, failedRead |-> Undefined]
    ELSE EmitGroupsAfter(EmitGroup(keys[i], fileGroups, proto, dir, unreadable),
                         keys, i, articles, fileGroups, proto, dir, unreadable)

\* The emit loop over the groups g the grouping loop built.
EmitGrouped(g, dir, unreadable) ==
    EmitGroups(ForInKeys(g.groups, g.proto), 1, <<>>, g.groups, g.proto, dir,
               unreadable)

\* How the try block ends: completion, the articles array at that point, the
\* read that rejected, and Object.prototype as the grouping loop left it.
TryCompletion(e, proto) ==
    [completion |-> e.completion, articles |-> e.articles,
     failedRead |-> e.failedRead, proto |-> proto]

GetNewsArticlesScan(g, dir, unreadable) ==
    TryCompletion(EmitGrouped(g, dir, unreadable), g.proto)

\* The try block of 'get-news-articles'. listed is whether readdir(newsDir)
\* fulfilled.
GetNewsArticlesTry(listed, files, unreadable, proto) ==
    IF ~listed
    THEN [completion |-> "throw", articles |-> <<>>, failedRead |-> Undefined,
          proto |-> proto]
    ELSE GetNewsArticlesScan(GroupFiles(files, 1, <<>>, proto), files, unreadable)

\* A catch block that logs and rethrows, as those of the fetch handlers do.
GetNewsArticlesCatchRethrowing(try) == [settled |-> "rejected", value |-> <<>>]

\* A catch block that returns the articles collected before the error.
GetNewsArticlesCatchKeepingArticles(try) ==
    [settled |-> "resolved", value |-> try.articles]

\* catch (error) { console.error(...); return []; }
GetNewsArticlesCatch(try) == [settled |-> "resolved", value |-> <<>>]

\* How the promise settles for a try block that ended as try did.
GetNewsArticlesSettle(try) ==
    IF try.completion = "throw" THEN GetNewsArticlesCatch(try)
    ELSE [settled |-> "resolved", value |-> try.articles]

\* The settled promise together with what the invocation met and left.
GetNewsArticlesOutcome(result, try) ==
    [settled |-> result.settled, value |-> result.value,
     failedRead |-> try.failedRead, proto |-> try.proto]

GetNewsArticlesOf(try) == GetNewsArticlesOutcome(GetNewsArticlesSettle(try), try)

\* ipcMain.handle('get-news-articles', ...)
GetNewsArticles(listed, files, unreadable, proto) ==
    GetNewsArticlesOf(GetNewsArticlesTry(listed, files, unreadable, proto))

\* ------------------------------------------------------ 'get-announcements'

\* trimmedContent.length <= 100
MaxAnnouncementLength == 100

e_txt == <<"e",".","t","x","t">>

s_txt == <<"s",".","t","x","t">>

h_txt == <<"h",".","t","x","t">>

c_txt == <<"c",".","t","x","t">>

l_txt == <<"l",".","t","x","t">>

u_TXT == <<"u",".","T","X","T">>

n_md == <<"n",".","m","d">>

\* The entries that can appear in announcementsDir.
AnnouncementFileNames == {e_txt, s_txt, h_txt, c_txt, l_txt, u_TXT, n_md}

Xs(n) == [i \in 1..n |-> "x"]

\* What fs.promises.readFile(filePath, 'utf-8') yields for each entry of
\* announcementsDir.
AnnouncementFileText(file) ==
    CASE file = e_txt -> <<>>
      [] file = s_txt -> <<" ", "\n", "\t">>
      [] file = h_txt -> <<" ", "h", "i", " ", "!", "\n">>
      [] file = c_txt -> <<" ">> \o Xs(MaxAnnouncementLength) \o <<"\r", "\n">>
      [] file = l_txt -> Xs(MaxAnnouncementLength + 1)
      [] file = u_TXT -> <<"u", "p">>
      [] file = n_md  -> <<"m", "d">>
      [] OTHER        -> <<>>

\* The length test with the upper limit excluded.
AnnouncementLengthBelowLimit(trimmedContent) ==
    Len(trimmedContent) > 0 /\ Len(trimmedContent) < MaxAnnouncementLength

\* if (trimmedContent.length > 0 && trimmedContent.length <= 100)
AnnouncementLengthOk(trimmedContent) ==
    Len(trimmedContent) > 0 /\ Len(trimmedContent) <= MaxAnnouncementLength

\* if (length test) { announcements.push({ content: trimmedContent }); }
PushAnnouncement(trimmedContent) ==
    IF AnnouncementLengthOk(trimmedContent)
    THEN <<[content |-> trimmedContent]>>
    ELSE <<>>

\* One iteration of the loop over files: the record pushed (if any), or the
\* read that rejected.
AnnouncementFile(file, dir, unreadable) ==
    IF toLowerCase(extname(file)) = TxtExt
    THEN IF ~ReadFileOk(file, dir, unreadable)
         THEN [thrown |-> TRUE, failedRead |-> file, pushed |-> <<>>]
         ELSE [thrown |-> FALSE, failedRead |-> Undefined,
               pushed |-> PushAnnouncement(trim(AnnouncementFileText(file)))]
    ELSE [thrown |-> FALSE, failedRead |-> Undefined, pushed |-> <<>>]

\* for (const file of files) { ... }
RECURSIVE AnnouncementFiles(_, _, _, _)
AnnouncementFilesAfter(a, files, i, announcements, unreadable) ==
    IF a.thrown
    THEN [completion |-> "throw", announcements |-> announcements,
          failedRead |-> a.failedRead]
    ELSE AnnouncementFiles(files, i + 1, announcements \o a.pushed, unreadable)

AnnouncementFiles(files, i, announcements, unreadable) ==
    IF i > Len(files)
    THEN [completion |-> "normal", announcements |-> announcements,
          failedRead |-> Undefined]
    ELSE AnnouncementFilesAfter(AnnouncementFile(files[i], files, unreadable),
                                files, i, announcements, unreadable)

\* The try block of 'get-announcements'. listed is whether
\* readdir(announcementsDir) fulfilled.
GetAnnouncementsTry(listed, files, unreadable) ==
    IF ~listed
    THEN [completion |-> "throw", announcements |-> <<>>, failedRead |-> Undefined]
    ELSE AnnouncementFiles(files, 1, <<>>, unreadable)

\* catch (error) { console.error(...); return []; }
GetAnnouncementsCatch(try) == [settled |-> "resolved", value |-> <<>>]

\* How the promise settles for a try block that ended as try did.
GetAnnouncementsSettle(try) ==
    IF try.completion = "throw" THEN GetAnnouncementsCatch(try)
    ELSE [settled |-> "resolved", value |-> try.announcements]

\* The settled promise together with the read that rejected.
GetAnnouncementsOutcome(result, try) ==
    [settled |-> result.settled, value |-> result.value,
     failedRead |-> try.failedRead]

GetAnnouncementsOf(try) == GetAnnouncementsOutcome(GetAnnouncementsSettle(try), try)

\* ipcMain.handle('get-announcements', ...)
GetAnnouncements(listed, files, unreadable) ==
    GetAnnouncementsOf(GetAnnouncementsTry(listed, files, unreadable))

\* ------------------------------------------------- Weather: the forecast

\* Number of days the forecast shows (dates.slice(0, 4)).
ForecastDays == 4

\* A Number: a finite value or one of the two infinities.
Finite(n) == [inf |-> 0, n |-> n]

Infinity == [inf |-> 1, n |-> 0]

NegInfinity == [inf |-> -1, n |-> 0]

\* a < b on Numbers.
NumLess(a, b) ==
    IF a.inf # b.inf THEN a.inf < b.inf ELSE a.inf = 0 /\ a.n < b.n

\* Day(t) of a time value, floor(t / msPerDay), with t kept in seconds:
\* new Date(item.dt * 1000) of an integer dt is exact.
DayFromTime(t) == t \div 86400

\* Year, month and date of a day number in the proleptic Gregorian calendar
\* (YearFromTime, MonthFromTime and DateFromTime of Date.prototype), computed
\* from the day's position in its 400-year era, counted from March 1st.
YearOfEra(doe) ==
    (doe - (doe \div 1460) + (doe \div 36524) - (doe \div 146096)) \div 365

DayOfYearFromMarch(doe, yoe) ==
    doe - (365 * yoe + (yoe \div 4) - (yoe \div 100))

MonthFromMarch(doy) == (5 * doy + 2) \div 153

CivilMonth(mp) == IF mp < 10 THEN mp + 3 ELSE mp - 9

CivilDate(doy, mp) == doy - ((153 * mp + 2) \div 5) + 1

CivilYear(era, yoe, month) ==
    yoe + era * 400 + (IF month <= 2 THEN 1 ELSE 0)

CivilOfYearDay(era, yoe, doy) ==
    [year  |-> CivilYear(era, yoe, CivilMonth(MonthFromMarch(doy))),
     month |-> CivilMonth(MonthFromMarch(doy)),
     date  |-> CivilDate(doy, MonthFromMarch(doy))]

CivilOfEraDay(era, doe) ==
    CivilOfYearDay(era, YearOfEra(doe), DayOfYearFromMarch(doe, YearOfEra(doe)))

CivilFromDay(day) ==
    CivilOfEraDay((day + 719468) \div 146097, (day + 719468) % 146097)

DigitChar(d) == <<"0", "1", "2", "3", "4", "5", "6", "7", "8", "9">>[d + 1]

TwoDigits(n) == <<DigitChar(n \div 10), DigitChar(n % 10)>>

FourDigits(n) == TwoDigits(n \div 100) \o TwoDigits(n % 100)

\* The date part of toISOString, "YYYY-MM-DD", for the years 0000 to 9999.
ISODate(civil) ==
    FourDigits(civil.year) \o <<"-">> \o TwoDigits(civil.month)
        \o <<"-">> \o TwoDigits(civil.date)

\* new Date(t).toISOString().split('T')[0]
toISODateString(t) == ISODate(CivilFromDay(DayFromTime(t)))

\* The code unit of a character of a date string.
CharCode(c) == IF c = "-" THEN 45 ELSE 48 + DigitValue(c)

\* a < b on strings: by code units, a proper prefix first.
RECURSIVE StringLess(_, _)
StringLess(a, b) ==
    IF b = <<>> THEN FALSE
    ELSE IF a = <<>> THEN TRUE
    ELSE IF a[1] = b[1] THEN StringLess(Tail(a), Tail(b))
    ELSE CharCode(a[1]) < CharCode(b[1])

\* The condition labels of the responses.
Clear == <<"C", "l", "e", "a", "r">>

Clouds == <<"C", "l", "o", "u", "d", "s">>

Rain == <<"R", "a", "i", "n">>

\* An item of data.list: item.dt, item.main.temp and item.weather[0].main.
Item(dt, temp, main) == [dt |-> dt, temp |-> temp, main |-> main]

\* The items a response is made of: four of 2024-12-31 (the first and the last
\* second of the day among them) and one for each of the four days that
\* follow.
ForecastItems ==
    { Item(1735603200, 30, Clear),
      Item(1735614000, -2, Rain),
      Item(1735624800, 35, Rain),
      Item(1735689599, 33, Clear),
      Item(1735689600, 40, Clouds),
      Item(1735819200, 41, Rain),
      Item(1735905600, 42, Clear),
      Item(1735992000, 43, Clouds) }

\* The instants at which the forecast is processed: noon of 2024-12-31 and
\* the first second of 2025-01-01.
Instants == <<1735646400, 1735689600>>

\* groupedData[dateString].push(item), the bucket created when it is missing.
\* groupedData keeps its keys in the order of their creation.
PushItem(groupedData, dateString, item) ==
    IF \E k \in 1..Len(groupedData) : groupedData[k].date = dateString
    THEN [k \in 1..Len(groupedData) |->
             IF groupedData[k].date = dateString
             THEN [date |-> dateString, items |-> Append(groupedData[k].items, item)]
             ELSE groupedData[k]]
    ELSE Append(groupedData, [date |-> dateString, items |-> <<item>>])

\* data.list.forEach: the items grouped by their UTC date.
RECURSIVE GroupByDate(_, _, _)
GroupByDate(list, i, groupedData) ==
    IF i > Len(list) THEN groupedData
    ELSE GroupByDate(list, i + 1,
                     PushItem(groupedData, toISODateString(list[i].dt), list[i]))

\* Object.keys(groupedData)
ObjectKeys(groupedData) == [k \in 1..Len(groupedData) |-> groupedData[k].date]

\* .filter((date) => date > todayDateString): today's bucket left out.
FilterAfterToday(dates, todayDateString) ==
    SelectSeq(dates, LAMBDA date : StringLess(todayDateString, date))

\* .filter((date) => date >= todayDateString)
FilterFromToday(dates, todayDateString) ==
    SelectSeq(dates, LAMBDA date : ~StringLess(date, todayDateString))

\* Array.prototype.sort without a comparator: ascending by code units.
RECURSIVE SortStrings(_)
SortTaking(dates, m) ==
    <<dates[m]>> \o SortStrings(SubSeq(dates, 1, m - 1)
                                   \o SubSeq(dates, m + 1, Len(dates)))

SortStrings(dates) ==
    IF dates = <<>> THEN <<>>
    ELSE SortTaking(dates,
                    CHOOSE m \in 1..Len(dates) :
                        /\ \A k \in 1..Len(dates) : ~StringLess(dates[k], dates[m])
                        /\ \A k \in 1..(m - 1) : StringLess(dates[m], dates[k]))

\* dates.slice(0, 3): one day short.
SliceThreeDays(dates) ==
    SubSeq(dates, 1, IF Len(dates) < 3 THEN Len(dates) ELSE 3)

\* dates.slice(0, 4)
SliceDays(dates) ==
    SubSeq(dates, 1, IF Len(dates) < ForecastDays THEN Len(dates) ELSE ForecastDays)

\* The count of a label kept as an entry that is deleted and inserted again
\* when the label is counted once more: the keys in the order of their last
\* count.
CountConditionMovingLast(conditionCounts, condition) ==
    IF \E k \in 1..Len(conditionCounts) : conditionCounts[k].condition = condition
    THEN Append(SelectSeq(conditionCounts, LAMBDA c : c.condition # condition),
                [condition |-> condition,
                 count |-> 1 + conditionCounts[CHOOSE k \in 1..Len(conditionCounts) :
                                  conditionCounts[k].condition = condition].count])
    ELSE Append(conditionCounts, [condition |-> condition, count |-> 1])

\* conditionCounts[condition]++, or = 1 for a label not yet counted.
\* conditionCounts keeps its keys in the order of their creation.
CountCondition(conditionCounts, condition) ==
    IF \E k \in 1..Len(conditionCounts) : conditionCounts[k].condition = condition
    THEN [k \in 1..Len(conditionCounts) |->
             IF conditionCounts[k].condition = condition
             THEN [condition |-> condition, count |-> conditionCounts[k].count + 1]
             ELSE conditionCounts[k]]
    ELSE Append(conditionCounts, [condition |-> condition, count |-> 1])

\* if (temp < minTemp) minTemp = temp
MinTempAfter(minTemp, temp) == IF NumLess(temp, minTemp) THEN temp ELSE minTemp

\* else if (temp > maxTemp): the maximum skipped when the minimum was set.
MaxTempAfterElse(minTemp, maxTemp, temp) ==
    IF NumLess(temp, minTemp) THEN maxTemp
    ELSE IF NumLess(maxTemp, temp) THEN temp ELSE maxTemp

\* if (temp > maxTemp) maxTemp = temp
MaxTempAfter(minTemp, maxTemp, temp) ==
    IF NumLess(maxTemp, temp) THEN temp ELSE maxTemp

\* dayData.forEach: the least and the greatest temperature and the count of
\* each condition of the day.
RECURSIVE ScanDay(_, _, _, _, _)
ScanDay(dayData, i, minTemp, maxTemp, conditionCounts) ==
    IF i > Len(dayData)
    THEN [minTemp |-> minTemp, maxTemp |-> maxTemp, conditionCounts |-> conditionCounts]
    ELSE ScanDay(dayData, i + 1,
                 MinTempAfter(minTemp, Finite(dayData[i].temp)),
                 MaxTempAfter(minTemp, maxTemp, Finite(dayData[i].temp)),
                 CountCondition(conditionCounts, dayData[i].main))

\* if (conditionCounts[condition] >= maxCount): the last of the most common.
RECURSIVE LastMostCommon(_, _, _, _)
LastMostCommon(conditionCounts, i, maxCount, mostCommonCondition) ==
    IF i > Len(conditionCounts) THEN mostCommonCondition
    ELSE IF conditionCounts[i].count >= maxCount
    THEN LastMostCommon(conditionCounts, i + 1,
                        conditionCounts[i].count, conditionCounts[i].condition)
    ELSE LastMostCommon(conditionCounts, i + 1, maxCount, mostCommonCondition)

\* for (const condition in conditionCounts): the first condition whose count
\* is greater than the count of every condition before it.
RECURSIVE MostCommon(_, _, _, _)
MostCommon(conditionCounts, i, maxCount, mostCommonCondition) ==
    IF i > Len(conditionCounts) THEN mostCommonCondition
    ELSE IF conditionCounts[i].count > maxCount
    THEN MostCommon(conditionCounts, i + 1,
                    conditionCounts[i].count, conditionCounts[i].condition)
    ELSE MostCommon(conditionCounts, i + 1, maxCount, mostCommonCondition)

\* The record of a day, from the result of the scan of its items.
DayForecast(date, scanned) ==
    [date      |-> date,
     temp_min  |-> scanned.minTemp,
     temp_max  |-> scanned.maxTemp,
     condition |-> MostCommon(scanned.conditionCounts, 1, 0, Null)]

\* groupedData[date]
DayData(groupedData, date) ==
    groupedData[CHOOSE k \in 1..Len(groupedData) : groupedData[k].date = date].items

\* dates.slice(0, 4).map(...)
DailyData(groupedData, dates) ==
    [k \in 1..Len(dates) |->
        DayForecast(dates[k],
                    ScanDay(DayData(groupedData, dates[k]), 1, Infinity, NegInfinity, <<>>))]

ProcessGrouped(groupedData, todayDateString) ==
    DailyData(groupedData,
              SliceDays(SortStrings(FilterFromToday(ObjectKeys(groupedData),
                                                    todayDateString))))

\* processForecastData(data), called at time t.
processForecastData(list, t) ==
    ProcessGrouped(GroupByDate(list, 1, <<>>), toISODateString(t))

\* ------------------------------------------------------------ the renderer

\* The channels whose invocations the renderer keeps count of.
Channels ==
    {"get-news-articles", "get-announcements", "fetch-news", "fetch-weather",
     "fetch-forecast"}

\* The components that own interval timers.
Components == {"StybergNews", "Announcements", "News", "Weather"}

\* The components whose fetches wait for the isDev state.
EnvironmentComponents == {"News", "Weather"}

\* true and false, as values of the isDev state (which starts as null).
JsTrue == <<"true">>

JsFalse == <<"false">>

\* 'fetch-environment': const isDev = !app.isPackaged; return isDev.
FetchEnvironment(packaged) == IF packaged THEN JsFalse ELSE JsTrue

\* An effect that runs whatever the isDev state is.
RefreshEffectAlways(value) == TRUE

\* if (isDev !== null), the test of the refresh effect of WorldNews and Weather.
RefreshEffectRuns(value) == value # Null

\* The useMockData flags of WorldNews and of Weather.
NewsUseMockData == FALSE

WeatherUseMockData == TRUE

\* if (isDev && useMockData)
UsesMockData(value, useMockData) == value = JsTrue /\ useMockData

\* No interval is active.
NoTimers == [c \in Components |-> 0]

\* A cleanup that leaves the interval of its effect running.
ClearIntervalMissing(timers) == timers

\* The cleanup of a rotation effect, clearInterval of the interval the effect
\* created last, on a component with so many active rotation intervals.
ClearInterval(timers) == IF timers > 0 THEN timers - 1 ELSE 0

\* A rotation effect runs because the list changed: the cleanup of its last
\* run, then setInterval when the list is not empty.
RotationEffect(timers, list) ==
    ClearInterval(timers) + (IF Len(list) > 0 THEN 1 ELSE 0)

\* The intervals left by a commit: a render that throws unmounts the
\* application, and the cleanup of every effect clears its interval.
TimersAfterCommit(ok, timers) == IF ok THEN timers ELSE NoTimers

\* The listings newsDir and announcementsDir go through while the kiosk runs.
KioskNewsListings == {<<>>, <<a_jpg>>, <<proto_txt>>, <<a_txt, n2_jpg>>}

KioskAnnouncementListings == {<<>>, <<h_txt>>, <<h_txt, u_TXT>>}

\* An article of the mediastack response: title, image and description.
WorldArticle(title, image, description) ==
    [title |-> title, image |-> image, description |-> description]

ArticleOne ==
    WorldArticle(<<"O", "n", "e">>, <<"h", "t", "t", "p", ":", "/", "/", "1">>, <<"d", "1">>)

ArticleTwo ==
    WorldArticle(<<"T", "w", "o">>, <<"h", "t", "t", "p", "s", ":", "/", "/", "2">>, <<"d", "2">>)

ArticleNoImage == WorldArticle(<<"N", "o">>, Null, <<"d", "3">>)

\* response.data.data of the responses the kiosk meets.
WorldNewsResponses ==
    {<<>>, <<ArticleNoImage>>, <<ArticleOne>>, <<ArticleOne, ArticleNoImage, ArticleTwo>>}

\* A string that is neither null nor empty.
Truthy(s) == s # Null /\ s # <<>>

\* String.prototype.startsWith
StartsWith(s, prefix) ==
    Len(s) >= Len(prefix) /\ SubSeq(s, 1, Len(prefix)) = prefix

\* A filter that drops a description of exactly 400 characters.
KeepsArticleBelowLimit(article) ==
    /\ Truthy(article.title)
    /\ Truthy(article.image)
    /\ StartsWith(article.image, <<"h", "t", "t", "p">>)
    /\ Truthy(article.description)
    /\ Len(article.description) < 400

\* The test of the filter of 'fetch-news'.
KeepsArticle(article) ==
    /\ Truthy(article.title)
    /\ Truthy(article.image)
    /\ StartsWith(article.image, <<"h", "t", "t", "p">>)
    /\ Truthy(article.description)
    /\ Len(article.description) <= 400

\* articles.filter(...) of 'fetch-news'.
FilteredArticles(data) == SelectSeq(data, KeepsArticle)

\* What the request of 'fetch-news' met: nothing yet, a response with its
\* data.data, or a failure.
NoResponse == [status |-> "none", data |-> <<>>]

NewsResponse(data) == [status |-> "ok", data |-> data]

FailedResponse == [status |-> "failed", data |-> <<>>]

\* ipcMain.handle('fetch-news', ...): the filtered articles of the response,
\* or the error of the request thrown again.
FetchNewsHandler(response) ==
    IF response.status = "failed"
        THEN [settled |-> "rejected", value |-> <<>>, failedRead |-> Undefined]
        ELSE [settled |-> "resolved", value |-> FilteredArticles(response.data),
              failedRead |-> Undefined]

\* The messages of the error state of WorldNews.
NoArticlesError == <<"No news articles are currently available.">>

UnavailableError == <<"News articles are currently unavailable.">>

\* filteredArticles of the mock branch of fetchNews.
MockArticles ==
    << WorldArticle(<<"S", "1">>, <<"h", "t", "t", "p", "s", ":", "/", "/", "v">>, <<"s", "1">>),
       WorldArticle(<<"S", "2">>, <<"h", "t", "t", "p", "s", ":", "/", "/", "v">>, <<"s", "2">>) >>

\* prevArticles.filter((article, index) => index !== currentArticleIndex)
WithoutIndex(prevArticles, index) ==
    SubSeq(prevArticles, 1, index) \o SubSeq(prevArticles, index + 2, Len(prevArticles))

\* An update of the index that keeps prevIndex in every case.
IndexAfterImageErrorKept(prevIndex, length) == prevIndex

\* The update of the index in handleImageError; length is articles.length of
\* the render that showed the image.
IndexAfterImageError(prevIndex, length) ==
    IF length <= 1 THEN 0
    ELSE IF prevIndex >= length - 1 THEN 0
    ELSE prevIndex

\* What the text column of WorldNews shows.
NewsView(error, articles) ==
    IF error # Null THEN "error"
    ELSE IF Len(articles) = 0 THEN "loading"
    ELSE "article"

\* ------------------------------------------------- Weather: the component

\* weather.current as far as the component's logic reads it: weather[0].id,
\* sunrise and sunset.
WeatherData(id, sunrise, sunset) == [id |-> id, sunrise |-> sunrise, sunset |-> sunset]

\* mockWeatherData at time t.
mockWeatherData(t) == WeatherData(200, t - 3600 * 2, t + 3600 * 6)

\* The 'fetch-weather' responses the kiosk meets: a clear sky and smoke on
\* 2024-12-31 (sun from 07:00 to 16:00 UTC), a clear sky on 2025-01-01.
WeatherResponses ==
    { WeatherData(800, 1735628400, 1735660800),
      WeatherData(711, 1735628400, 1735660800),
      WeatherData(800, 1735714800, 1735747200) }

\* data.list of the 'fetch-forecast' responses the kiosk meets.
ForecastResponses ==
    {<<>>, <<Item(1735689600, 40, Clouds), Item(1735819200, 41, Rain)>>}

\* The message of the error state of Weather.
WeatherFetchError == <<"Failed to fetch weather data">>

\* The weather ids of the scene tables, by group.
ThunderstormIds == {200, 201, 202, 210, 211, 212, 221, 230, 231, 232}

DrizzleIds == {300, 301, 302, 310, 311, 312, 313, 314, 321}

RainIds == {500, 501, 502, 503, 504, 511, 520, 521, 522, 531}

SnowIds == {600, 601, 602, 611, 612, 613, 615, 616, 620, 621, 622}

AtmosphereIds == {711, 721, 731, 741, 751, 761, 762, 771, 781}

\* The scenes both tables have: splineScenes[weatherId] for thunderstorm,
\* drizzle, rain and mist, snow, '' for the rest of the atmosphere group,
\* overcast clouds; "undefined" for an id that is no key. A scene is named by
\* the part of its URL between the host and /scene.splinecode.
CommonScenes(weatherId) ==
    IF weatherId \in ThunderstormIds THEN "7lS05oiXnQySeZkS"
    ELSE IF weatherId \in DrizzleIds THEN "DdRBFtXUE86cx4jm"
    ELSE IF weatherId \in RainIds \cup {701} THEN "AC2lpPCp12jHnalJ"
    ELSE IF weatherId \in SnowIds THEN "Dp9BU2YzDb3596Wa"
    ELSE IF weatherId \in AtmosphereIds THEN ""
    ELSE IF weatherId = 804 THEN "f4Qkqev0L-eCm-pA"
    ELSE "undefined"

\* splineScenes[weatherId] of the table of the day.
DayScenes(weatherId) ==
    IF weatherId = 800 THEN "xkvpDnlvZzRdSQNn"
    ELSE IF weatherId \in {801, 802, 803} THEN "JS3HK7e12qyvx4De"
    ELSE CommonScenes(weatherId)

\* splineScenes[weatherId] of the table of the night.
NightScenes(weatherId) ==
    IF weatherId \in {800, 801, 802, 803} THEN "z8W5wcwZzUzjjLJi"
    ELSE CommonScenes(weatherId)

\* value || fallback
OrElse(value, fallback) == IF value \in {"", "undefined"} THEN fallback ELSE value

\* splineSceneUrl of a render at utcTime.
SplineSceneUrl(utcTime, sunrise, sunset, weatherId) ==
    IF utcTime >= sunrise /\ utcTime < sunset
        THEN OrElse(DayScenes(weatherId), "DdRBFtXUE86cx4jm")
    ELSE IF sunrise >= utcTime /\ sunset <= utcTime
        THEN OrElse(NightScenes(weatherId), "f4Qkqev0L-eCm-pA")
    ELSE "f4Qkqev0L-eCm-pA"

\* A render that tests the loading state before the error state.
WeatherViewLoadingFirst(error, weatherState, forecastState) ==
    IF weatherState = <<>> \/ Len(forecastState) = 0 THEN "loading"
    ELSE IF error # Null THEN "error"
    ELSE "weather"

\* What Weather renders: the error, 'Loading weather...' or the weather. The
\* weather state is the empty sequence for null and <<data>> otherwise.
WeatherView(error, weatherState, forecastState) ==
    IF error # Null THEN "error"
    ELSE IF weatherState = <<>> \/ Len(forecastState) = 0 THEN "loading"
    ELSE "weather"

\* The render of StybergNews and of Announcements reads a member of
\* list[index] whenever the list is not empty, and throws when there is no
\* such element; no error boundary is mounted, so the application unmounts.
RenderOk(list, index) == list = <<>> \/ index < Len(list)

RendererInit ==
    /\ articlesState = <<>>
    /\ currentArticleIndex = 0
    /\ announcementsState = <<>>
    /\ currentAnnouncementIndex = 0
    /\ worldArticles = <<>>
    /\ worldArticleIndex = 0
    /\ worldError = Null
    /\ inFlight = [c \in Channels |-> 0]
    /\ mounted = TRUE
    /\ environment = [c \in EnvironmentComponents |-> "idle"]
    /\ isDev = [c \in EnvironmentComponents |-> Null]
    /\ refreshTimers = NoTimers
    /\ rotationTimers = NoTimers
    /\ weather = <<>>
    /\ weatherError = Null
    /\ failedSinceRefresh = FALSE


\* ------------------------------------------------------------ state machine

\* No settled promise is waiting for the renderer. Of a settled promise the
\* state keeps, beside how it settled and with what value, what the invocation
\* met: whether readdir fulfilled, the read that rejected (if any) and
\* Object.prototype as the invocation found it.
NoReply ==
    [channel |-> "none", settled |-> "none", value |-> <<>>, listed |-> FALSE,
     failedRead |-> Undefined, protoBefore |-> <<>>]

\* The sets of entries that fail to be read in one invocation: none, or one
\* (the first rejected read ends the scan).
UnreadableChoices(dir) == {{}} \cup {{f} : f \in Range(dir)}

\* Names the file system of the share treats as the same name.
SameName(f, g) == toLowerCase(f) = toLowerCase(g)

Init ==
    /\ fsNews = <<>>
    /\ fsAnnouncements = <<>>
    /\ objectPrototype = <<>>
    /\ reply = NoReply
    /\ now = Instants[1]
    /\ forecastWeather = <<>>
    /\ forecast = <<>>
    /\ weatherPc = "awaiting"
    /\ isPackaged \in BOOLEAN
    /\ newsResponse = NoResponse
    /\ RendererInit

\* A file appears in newsDir.
AddNewsFile ==
    /\ reply = NoReply
    /\ Len(fsNews) + Len(fsAnnouncements) < MaxFiles
    /\ \E f \in NewsFileNames :
           /\ \A g \in Range(fsNews) : ~SameName(f, g)
           /\ fsNews' = Append(fsNews, f)
    /\ UNCHANGED <<fsAnnouncements, objectPrototype, reply, weatherVars, kioskVars,
                   hostVars, effectVars, weatherStateVars>>

\* A file disappears from newsDir.
RemoveNewsFile ==
    /\ reply = NoReply
    /\ \E i \in 1..Len(fsNews) :
           fsNews' = SubSeq(fsNews, 1, i - 1) \o SubSeq(fsNews, i + 1, Len(fsNews))
    /\ UNCHANGED <<fsAnnouncements, objectPrototype, reply, weatherVars, kioskVars,
                   hostVars, effectVars, weatherStateVars>>

\* A file appears in announcementsDir.
AddAnnouncementFile ==
    /\ reply = NoReply
    /\ Len(fsNews) + Len(fsAnnouncements) < MaxFiles
    /\ \E f \in AnnouncementFileNames :
           /\ \A g \in Range(fsAnnouncements) : ~SameName(f, g)
           /\ fsAnnouncements' = Append(fsAnnouncements, f)
    /\ UNCHANGED <<fsNews, objectPrototype, reply, weatherVars, kioskVars,
                   hostVars, effectVars, weatherStateVars>>

\* A file disappears from announcementsDir.
RemoveAnnouncementFile ==
    /\ reply = NoReply
    /\ \E i \in 1..Len(fsAnnouncements) :
           fsAnnouncements' = SubSeq(fsAnnouncements, 1, i - 1)
                                  \o SubSeq(fsAnnouncements, i + 1, Len(fsAnnouncements))
    /\ UNCHANGED <<fsNews, objectPrototype, reply, weatherVars, kioskVars,
                   hostVars, effectVars, weatherStateVars>>

\* The promise of an invocation on a channel, settled as r says.
Settled(channel, listed, r, protoBefore) ==
    [channel |-> channel, settled |-> r.settled, value |-> r.value,
     listed |-> listed, failedRead |-> r.failedRead, protoBefore |-> protoBefore]

\* The renderer invokes 'get-news-articles' and the handler settles.
InvokeGetNewsArticles ==
    /\ reply = NoReply
    /\ \E listed \in BOOLEAN, unreadable \in UnreadableChoices(fsNews) :
           /\ listed \/ unreadable = {}
           /\ \E r \in {GetNewsArticles(listed, fsNews, unreadable, objectPrototype)} :
                  /\ reply' = Settled("get-news-articles", listed, r, objectPrototype)
                  /\ objectPrototype' = r.proto
    /\ UNCHANGED <<fsNews, fsAnnouncements, weatherVars, kioskVars,
                   hostVars, effectVars, weatherStateVars>>

\* The renderer invokes 'get-announcements' and the handler settles.
InvokeGetAnnouncements ==
    /\ reply = NoReply
    /\ \E listed \in BOOLEAN, unreadable \in UnreadableChoices(fsAnnouncements) :
           /\ listed \/ unreadable = {}
           /\ reply' = Settled("get-announcements", listed,
                               GetAnnouncements(listed, fsAnnouncements, unreadable),
                               objectPrototype)
    /\ UNCHANGED <<fsNews, fsAnnouncements, objectPrototype, weatherVars, kioskVars,
                   hostVars, effectVars, weatherStateVars>>

\* The settled promise is handed to the renderer.
DeliverReply ==
    /\ reply # NoReply
    /\ reply' = NoReply
    /\ UNCHANGED <<fsNews, fsAnnouncements, objectPrototype, weatherVars, kioskVars,
                   hostVars, effectVars, weatherStateVars>>

Next ==
    \/ AddNewsFile
    \/ RemoveNewsFile
    \/ AddAnnouncementFile
    \/ RemoveAnnouncementFile
    \/ InvokeGetNewsArticles
    \/ InvokeGetAnnouncements
    \/ DeliverReply

Spec == Init /\ [][Next]_vars

\* ------------------------------------------- Weather: processing a response

\* The lists of at most n items, no item twice (the response has one item for
\* a timestamp), in any order.
RECURSIVE ForecastListsOf(_)
ExtendedLists(shorter, n) ==
    shorter \cup UNION {{Append(list, item) : item \in ForecastItems \ Range(list)} :
                           list \in {l \in shorter : Len(l) = n - 1}}

ForecastListsOf(n) ==
    IF n = 0 THEN {<<>>} ELSE ExtendedLists(ForecastListsOf(n - 1), n)

\* mockForecastData.list: one item for each of the four days after t.
mockForecastData(t) ==
    << Item(t + 3600 * 24 * 1, 78, Clear),
       Item(t + 3600 * 24 * 2, 75, Clouds),
       Item(t + 3600 * 24 * 3, 70, Rain),
       Item(t + 3600 * 24 * 4, 80, Clear) >>

\* A response (of the API, or the mock data of the development build) has
\* arrived at some instant and is about to be processed.
ForecastInit ==
    /\ fsNews = <<>>
    /\ fsAnnouncements = <<>>
    /\ objectPrototype = <<>>
    /\ reply = NoReply
    /\ now \in Range(Instants)
    /\ forecastWeather \in ForecastListsOf(MaxSamples) \cup {mockForecastData(now)}
    /\ forecast = <<>>
    /\ weatherPc = "awaiting"
    /\ isPackaged = (forecastWeather # mockForecastData(now))
    /\ newsResponse = NoResponse
    /\ RendererInit

\* fetchWeather, from the response on: setForecast(processForecastData(...)).
FetchWeather ==
    /\ weatherPc = "awaiting"
    /\ forecast' = processForecastData(forecastWeather, now)
    /\ weatherPc' = "processed"
    /\ UNCHANGED <<mainVars, now, forecastWeather, kioskVars,
                   hostVars, effectVars, weatherStateVars>>

ForecastNext == FetchWeather

ForecastSpec == ForecastInit /\ [][ForecastNext]_vars

\* ---------------------------------------- 'fetch-news': filtering a response

\* Articles of a response: two the filter keeps (one with a description of
\* exactly 400 characters) and eight that fail one of its tests.
CandidateArticles ==
    { WorldArticle(<<"A">>, <<"h", "t", "t", "p", ":", "/", "/", "a">>, <<"d">>),
      WorldArticle(<<"B">>, <<"h", "t", "t", "p", "s", ":", "/", "/", "b">>, Xs(400)),
      WorldArticle(Null, <<"h", "t", "t", "p", ":", "/", "/", "c">>, <<"d">>),
      WorldArticle(<<>>, <<"h", "t", "t", "p", ":", "/", "/", "e">>, <<"d">>),
      WorldArticle(<<"F">>, Null, <<"d">>),
      WorldArticle(<<"G">>, <<>>, <<"d">>),
      WorldArticle(<<"H">>, <<"f", "t", "p", ":", "/", "/", "h">>, <<"d">>),
      WorldArticle(<<"I">>, <<"h", "t", "t", "p", ":", "/", "/", "i">>, Null),
      WorldArticle(<<"J">>, <<"h", "t", "t", "p", ":", "/", "/", "j">>, <<>>),
      WorldArticle(<<"K">>, <<"h", "t", "t", "p", ":", "/", "/", "k">>, Xs(401)) }

\* The lists of at most n articles, in any order, an article any number of
\* times.
RECURSIVE ArticleListsOf(_)
LongerLists(shorter, n) ==
    shorter \cup {Append(list, article) :
                      list \in {l \in shorter : Len(l) = n - 1},
                      article \in CandidateArticles}

ArticleListsOf(n) ==
    IF n = 0 THEN {<<>>} ELSE LongerLists(ArticleListsOf(n - 1), n)

\* The request of 'fetch-news' has met a response, or has failed, and the
\* handler is about to go on.
FetchNewsInit ==
    /\ fsNews = <<>>
    /\ fsAnnouncements = <<>>
    /\ objectPrototype = <<>>
    /\ reply = NoReply
    /\ now = Instants[1]
    /\ forecastWeather = <<>>
    /\ forecast = <<>>
    /\ weatherPc = "awaiting"
    /\ isPackaged \in BOOLEAN
    /\ newsResponse \in {FailedResponse}
                           \cup {NewsResponse(data) : data \in ArticleListsOf(MaxArticles)}
    /\ RendererInit

\* The handler of 'fetch-news' goes on after its request and settles.
InvokeFetchNews ==
    /\ reply = NoReply
    /\ newsResponse # NoResponse
    /\ reply' = Settled("fetch-news", FALSE, FetchNewsHandler(newsResponse),
                        objectPrototype)
    /\ UNCHANGED <<fsNews, fsAnnouncements, objectPrototype, weatherVars, kioskVars,
                   hostVars, effectVars, weatherStateVars>>

FetchNewsNext ==
    \/ InvokeFetchNews
    \/ DeliverReply

FetchNewsSpec == FetchNewsInit /\ [][FetchNewsNext]_vars

\* ------------------------------------------------- the renderer at work

stybergVars == <<articlesState, currentArticleIndex>>

announcementVars == <<announcementsState, currentAnnouncementIndex>>

worldVars == <<worldArticles, worldArticleIndex, worldError>>

\* The share's newsDir is given other content.
NewsDirectoryChanges ==
    /\ \E listing \in KioskNewsListings \ {fsNews} : fsNews' = listing
    /\ UNCHANGED <<fsAnnouncements, objectPrototype, reply, weatherVars, kioskVars,
                   hostVars, effectVars, weatherStateVars>>

\* The share's announcementsDir is given other content.
AnnouncementsDirectoryChanges ==
    /\ \E listing \in KioskAnnouncementListings \ {fsAnnouncements} :
           fsAnnouncements' = listing
    /\ UNCHANGED <<fsNews, objectPrototype, reply, weatherVars, kioskVars,
                   hostVars, effectVars, weatherStateVars>>

\* A component may call its fetch function, on mount or when its refresh
\* interval fires: nothing in the component keeps count of the invocations
\* that have not settled.
MayInvoke ==
    /\ mounted
    /\ inFlight["get-news-articles"] + inFlight["get-announcements"]
           + inFlight["fetch-news"] + inFlight["fetch-weather"]
           + inFlight["fetch-forecast"] < MaxInFlight

\* The counts after ipcRenderer.invoke(channel).
InFlightWith(channel) == [inFlight EXCEPT ![channel] = @ + 1]

\* The refresh intervals after setInterval in a refresh effect of component c
\* whose last run left an interval (or none) to its cleanup.
RefreshTimersWith(c) == [refreshTimers EXCEPT ![c] = ClearInterval(@) + 1]

\* The rotation intervals after the rotation effect of component c ran for
\* its list.
RotationTimersWith(c, list) == [rotationTimers EXCEPT ![c] = RotationEffect(@, list)]

\* StybergNews is mounted and its effects run: fetchArticles() up to its
\* await, the refresh interval, and the carousel effect for the empty list.
MountStybergNews ==
    /\ MayInvoke
    /\ refreshTimers["StybergNews"] = 0
    /\ inFlight' = InFlightWith("get-news-articles")
    /\ refreshTimers' = RefreshTimersWith("StybergNews")
    /\ rotationTimers' = RotationTimersWith("StybergNews", articlesState)
    /\ UNCHANGED <<mainVars, weatherVars, stybergVars, announcementVars, worldVars,
                   mounted, hostVars, environment, isDev, weatherStateVars>>

\* Announcements is mounted and its effects run.
MountAnnouncements ==
    /\ MayInvoke
    /\ refreshTimers["Announcements"] = 0
    /\ inFlight' = InFlightWith("get-announcements")
    /\ refreshTimers' = RefreshTimersWith("Announcements")
    /\ rotationTimers' = RotationTimersWith("Announcements", announcementsState)
    /\ UNCHANGED <<mainVars, weatherVars, stybergVars, announcementVars, worldVars,
                   mounted, hostVars, environment, isDev, weatherStateVars>>

\* StybergNews: the refresh interval fires, fetchArticles() up to its await.
FetchArticles ==
    /\ MayInvoke
    /\ refreshTimers["StybergNews"] > 0
    /\ inFlight' = InFlightWith("get-news-articles")
    /\ UNCHANGED <<mainVars, weatherVars, stybergVars, announcementVars, worldVars,
                   mounted, hostVars, effectVars, weatherStateVars>>

\* Announcements: the refresh interval fires, fetchAnnouncements() up to its
\* await.
FetchAnnouncements ==
    /\ MayInvoke
    /\ refreshTimers["Announcements"] > 0
    /\ inFlight' = InFlightWith("get-announcements")
    /\ UNCHANGED <<mainVars, weatherVars, stybergVars, announcementVars, worldVars,
                   mounted, hostVars, effectVars, weatherStateVars>>

\* WorldNews is mounted and its effects run: fetchEnvironment() up to its
\* await, the refresh effect (which tests the isDev state and, when the test
\* passes, calls fetchNews() and sets the refresh interval) and the rotation
\* effect for the empty list.
MountNews ==
    /\ mounted
    /\ environment["News"] = "idle"
    /\ environment' = [environment EXCEPT !["News"] = "pending"]
    /\ \E runs \in {RefreshEffectRuns(isDev["News"])},
          mock \in {UsesMockData(isDev["News"], NewsUseMockData)} :
           /\ (runs /\ ~mock) => MayInvoke
           /\ refreshTimers' = IF runs THEN RefreshTimersWith("News") ELSE refreshTimers
           /\ inFlight' = IF runs /\ ~mock THEN InFlightWith("fetch-news") ELSE inFlight
           /\ worldArticles' = IF runs /\ mock THEN MockArticles ELSE worldArticles
           /\ rotationTimers' = RotationTimersWith("News", worldArticles')
    /\ UNCHANGED <<mainVars, weatherVars, stybergVars, announcementVars,
                   worldArticleIndex, worldError, mounted, hostVars, isDev,
                   weatherStateVars>>

\* WorldNews: the invocation of 'fetch-environment' settles. When it resolves,
\* setIsDev changes the isDev state and the refresh effect runs again; when it
\* rejects, fetchEnvironment logs the error and nothing changes.
NewsEnvironmentSettles ==
    /\ mounted
    /\ environment["News"] = "pending"
    /\ \E outcome \in {"resolved", "rejected"} :
           /\ environment' = [environment EXCEPT !["News"] = outcome]
           /\ isDev' = IF outcome = "resolved"
                           THEN [isDev EXCEPT !["News"] = FetchEnvironment(isPackaged)]
                           ELSE isDev
           /\ \E runs \in {outcome = "resolved" /\ RefreshEffectRuns(isDev'["News"])},
                 mock \in {UsesMockData(isDev'["News"], NewsUseMockData)} :
                  /\ (runs /\ ~mock) => MayInvoke
                  /\ refreshTimers' = IF runs THEN RefreshTimersWith("News")
                                      ELSE refreshTimers
                  /\ inFlight' = IF runs /\ ~mock THEN InFlightWith("fetch-news")
                                 ELSE inFlight
                  /\ worldArticles' = IF runs /\ mock THEN MockArticles ELSE worldArticles
                  /\ worldArticleIndex' = IF runs /\ mock THEN 0 ELSE worldArticleIndex
                  /\ rotationTimers' = IF runs /\ mock
                                           THEN RotationTimersWith("News", MockArticles)
                                           ELSE rotationTimers
    /\ UNCHANGED <<mainVars, weatherVars, stybergVars, announcementVars, worldError,
                   mounted, hostVars, weatherStateVars>>

\* WorldNews: the refresh interval fires, fetchNews() up to its await, or to
\* its end with the mock data.
FetchNews ==
    /\ mounted
    /\ refreshTimers["News"] > 0
    /\ \E mock \in {UsesMockData(isDev["News"], NewsUseMockData)} :
           /\ ~mock => MayInvoke
           /\ inFlight' = IF mock THEN inFlight ELSE InFlightWith("fetch-news")
           /\ worldArticles' = IF mock THEN MockArticles ELSE worldArticles
           /\ worldArticleIndex' = IF mock THEN 0 ELSE worldArticleIndex
           /\ rotationTimers' = IF mock THEN RotationTimersWith("News", MockArticles)
                                ELSE rotationTimers
    /\ UNCHANGED <<mainVars, weatherVars, stybergVars, announcementVars, worldError,
                   mounted, hostVars, environment, isDev, refreshTimers,
                   weatherStateVars>>

\* The counts after an invocation of a channel settled.
InFlightAfter(channel) == [inFlight EXCEPT ![channel] = @ - 1]

\* An invocation of 'get-news-articles' settles, having listed and read
\* newsDir as it is (the failures of the share are the matter of Spec), and
\* fetchArticles goes on after its await: setArticles(data), which is without
\* effect on an unmounted component, the render and the carousel effect.
GetNewsArticlesSettles ==
    /\ inFlight["get-news-articles"] > 0
    /\ \E r \in {GetNewsArticles(TRUE, fsNews, {}, objectPrototype)} :
           /\ objectPrototype' = r.proto
           /\ articlesState' = IF mounted THEN r.value ELSE articlesState
           /\ mounted' = (mounted /\ RenderOk(r.value, currentArticleIndex))
           /\ rotationTimers'
                  = TimersAfterCommit(mounted', RotationTimersWith("StybergNews", r.value))
           /\ refreshTimers' = TimersAfterCommit(mounted', refreshTimers)
    /\ inFlight' = InFlightAfter("get-news-articles")
    /\ UNCHANGED <<fsNews, fsAnnouncements, reply, weatherVars, currentArticleIndex,
                   announcementVars, worldVars, hostVars, environment, isDev,
                   weatherStateVars>>

\* An invocation of 'get-announcements' settles and fetchAnnouncements goes on
\* after its await: setAnnouncements(data), the render and the carousel effect.
GetAnnouncementsSettles ==
    /\ inFlight["get-announcements"] > 0
    /\ \E r \in {GetAnnouncements(TRUE, fsAnnouncements, {})} :
           /\ announcementsState' = IF mounted THEN r.value ELSE announcementsState
           /\ mounted' = (mounted /\ RenderOk(r.value, currentAnnouncementIndex))
           /\ rotationTimers'
                  = TimersAfterCommit(mounted', RotationTimersWith("Announcements", r.value))
           /\ refreshTimers' = TimersAfterCommit(mounted', refreshTimers)
    /\ inFlight' = InFlightAfter("get-announcements")
    /\ UNCHANGED <<mainVars, weatherVars, stybergVars, currentAnnouncementIndex,
                   worldVars, hostVars, environment, isDev, weatherStateVars>>

\* An invocation of 'fetch-news' resolves with the filtered articles of a
\* response and fetchNews goes on after its await: the list is replaced, the
\* index is reset, the error state follows the length of the list, and the
\* rotation effect runs for the new list.
FetchNewsResolves ==
    /\ inFlight["fetch-news"] > 0
    /\ mounted
    /\ \E data \in WorldNewsResponses :
           /\ worldArticles' = FilteredArticles(data)
           /\ worldArticleIndex' = 0
           /\ worldError' = IF FilteredArticles(data) = <<>> THEN NoArticlesError ELSE Null
           /\ rotationTimers' = RotationTimersWith("News", FilteredArticles(data))
    /\ inFlight' = InFlightAfter("fetch-news")
    /\ UNCHANGED <<mainVars, weatherVars, stybergVars, announcementVars, mounted,
                   hostVars, environment, isDev, refreshTimers, weatherStateVars>>

\* The request of 'fetch-news' fails, the handler rethrows and fetchNews
\* catches the rejection: only the error state changes.
FetchNewsRejects ==
    /\ inFlight["fetch-news"] > 0
    /\ mounted
    /\ worldError' = UnavailableError
    /\ inFlight' = InFlightAfter("fetch-news")
    /\ UNCHANGED <<mainVars, weatherVars, stybergVars, announcementVars, worldArticles,
                   worldArticleIndex, mounted, hostVars, effectVars, weatherStateVars>>

\* prevIndex === length ? 0 : prevIndex + 1: the wrap one position late.
NextIndexLate(prevIndex, length) ==
    IF prevIndex = length THEN 0 ELSE prevIndex + 1

\* prevIndex === length - 1 ? 0 : prevIndex + 1
NextIndex(prevIndex, length) ==
    IF prevIndex = length - 1 THEN 0 ELSE prevIndex + 1

\* prevIndex === 0 ? length - 1 : prevIndex - 1
PrevIndex(prevIndex, length) ==
    IF prevIndex = 0 THEN length - 1 ELSE prevIndex - 1

\* StybergNews: the carousel interval fires; its callback has the length of
\* the list the carousel effect last ran for, which is the list of the state.
RotateArticle ==
    /\ mounted
    /\ rotationTimers["StybergNews"] > 0
    /\ currentArticleIndex' = NextIndex(currentArticleIndex, Len(articlesState))
    /\ mounted' = RenderOk(articlesState, currentArticleIndex')
    /\ rotationTimers' = TimersAfterCommit(mounted', rotationTimers)
    /\ refreshTimers' = TimersAfterCommit(mounted', refreshTimers)
    /\ UNCHANGED <<mainVars, weatherVars, articlesState, announcementVars, worldVars,
                   inFlight, hostVars, environment, isDev, weatherStateVars>>

\* StybergNews: a click on the arrow to the right, shown in the development
\* build while the list has more than one article.
HandleNextArticle ==
    /\ mounted
    /\ Len(articlesState) > 1
    /\ currentArticleIndex' = NextIndex(currentArticleIndex, Len(articlesState))
    /\ mounted' = RenderOk(articlesState, currentArticleIndex')
    /\ rotationTimers' = TimersAfterCommit(mounted', rotationTimers)
    /\ refreshTimers' = TimersAfterCommit(mounted', refreshTimers)
    /\ UNCHANGED <<mainVars, weatherVars, articlesState, announcementVars, worldVars,
                   inFlight, hostVars, environment, isDev, weatherStateVars>>

\* StybergNews: a click on the arrow to the left.
HandlePrevArticle ==
    /\ mounted
    /\ Len(articlesState) > 1
    /\ currentArticleIndex' = PrevIndex(currentArticleIndex, Len(articlesState))
    /\ mounted' = RenderOk(articlesState, currentArticleIndex')
    /\ rotationTimers' = TimersAfterCommit(mounted', rotationTimers)
    /\ refreshTimers' = TimersAfterCommit(mounted', refreshTimers)
    /\ UNCHANGED <<mainVars, weatherVars, articlesState, announcementVars, worldVars,
                   inFlight, hostVars, environment, isDev, weatherStateVars>>

\* Announcements: the carousel interval fires.
RotateAnnouncement ==
    /\ mounted
    /\ rotationTimers["Announcements"] > 0
    /\ currentAnnouncementIndex'
           = NextIndex(currentAnnouncementIndex, Len(announcementsState))
    /\ mounted' = RenderOk(announcementsState, currentAnnouncementIndex')
    /\ rotationTimers' = TimersAfterCommit(mounted', rotationTimers)
    /\ refreshTimers' = TimersAfterCommit(mounted', refreshTimers)
    /\ UNCHANGED <<mainVars, weatherVars, stybergVars, announcementsState, worldVars,
                   inFlight, hostVars, environment, isDev, weatherStateVars>>

\* WorldNews: the rotation interval fires.
RotateWorldArticle ==
    /\ mounted
    /\ rotationTimers["News"] > 0
    /\ worldArticleIndex' = NextIndex(worldArticleIndex, Len(worldArticles))
    /\ UNCHANGED <<mainVars, weatherVars, stybergVars, announcementVars, worldArticles,
                   worldError, inFlight, mounted, hostVars, effectVars,
                   weatherStateVars>>

\* WorldNews: the image of the article on display fails to load (the image
\* is rendered while there is no error and the list is not empty):
\* handleImageError removes the article at the index of the render and
\* updates the index, and the rotation effect runs for the new list.
HandleImageError ==
    /\ mounted
    /\ NewsView(worldError, worldArticles) = "article"
    /\ worldArticles' = WithoutIndex(worldArticles, worldArticleIndex)
    /\ worldArticleIndex' = IndexAfterImageError(worldArticleIndex, Len(worldArticles))
    /\ rotationTimers' = RotationTimersWith("News", worldArticles')
    /\ UNCHANGED <<mainVars, weatherVars, stybergVars, announcementVars, worldError,
                   inFlight, mounted, hostVars, environment, isDev, refreshTimers,
                   weatherStateVars>>

KioskNext ==
    \/ NewsDirectoryChanges
    \/ AnnouncementsDirectoryChanges
    \/ MountStybergNews
    \/ MountAnnouncements
    \/ MountNews
    \/ NewsEnvironmentSettles
    \/ FetchArticles
    \/ FetchAnnouncements
    \/ FetchNews
    \/ GetNewsArticlesSettles
    \/ GetAnnouncementsSettles
    \/ FetchNewsResolves
    \/ FetchNewsRejects
    \/ RotateArticle
    \/ HandleNextArticle
    \/ HandlePrevArticle
    \/ RotateAnnouncement
    \/ RotateWorldArticle
    \/ HandleImageError

KioskSpec == Init /\ [][KioskNext]_vars

\* --------------------------------------- Weather and WorldNews at work

\* The clock moves on.
ClockAdvances ==
    /\ \E t \in Range(Instants) : t > now /\ now' = t
    /\ UNCHANGED <<mainVars, forecastWeather, forecast, weatherPc, kioskVars, hostVars,
                   effectVars, weatherStateVars>>

\* The 'fetch-weather' and 'fetch-forecast' counts after an invocation of
\* 'fetch-weather' resolved and fetchWeather invoked 'fetch-forecast'.
InFlightWithForecast ==
    [inFlight EXCEPT !["fetch-weather"] = @ - 1, !["fetch-forecast"] = @ + 1]

\* Weather is mounted and its effects run: fetchEnvironment() up to its
\* await, and the refresh effect, which tests the isDev state and, when the
\* test passes, calls fetchWeather() and sets the refresh interval.
MountWeather ==
    /\ mounted
    /\ environment["Weather"] = "idle"
    /\ environment' = [environment EXCEPT !["Weather"] = "pending"]
    /\ \E runs \in {RefreshEffectRuns(isDev["Weather"])},
          mock \in {UsesMockData(isDev["Weather"], WeatherUseMockData)} :
           /\ (runs /\ ~mock) => MayInvoke
           /\ refreshTimers' = IF runs THEN RefreshTimersWith("Weather") ELSE refreshTimers
           /\ inFlight' = IF runs /\ ~mock THEN InFlightWith("fetch-weather") ELSE inFlight
           /\ weather' = IF runs /\ mock THEN <<mockWeatherData(now)>> ELSE weather
           /\ forecast' = IF runs /\ mock
                              THEN processForecastData(mockForecastData(now), now)
                              ELSE forecast
    /\ UNCHANGED <<mainVars, now, forecastWeather, weatherPc, stybergVars,
                   announcementVars, worldVars, mounted, hostVars, isDev,
                   rotationTimers, weatherError, failedSinceRefresh>>

\* Weather: the invocation of 'fetch-environment' settles. When it resolves,
\* setIsDev changes the isDev state and the refresh effect runs again; when it
\* rejects, fetchEnvironment logs the error and nothing changes.
WeatherEnvironmentSettles ==
    /\ mounted
    /\ environment["Weather"] = "pending"
    /\ \E outcome \in {"resolved", "rejected"} :
           /\ environment' = [environment EXCEPT !["Weather"] = outcome]
           /\ isDev' = IF outcome = "resolved"
                           THEN [isDev EXCEPT !["Weather"] = FetchEnvironment(isPackaged)]
                           ELSE isDev
           /\ \E runs \in {outcome = "resolved" /\ RefreshEffectRuns(isDev'["Weather"])},
                 mock \in {UsesMockData(isDev'["Weather"], WeatherUseMockData)} :
                  /\ (runs /\ ~mock) => MayInvoke
                  /\ refreshTimers' = IF runs THEN RefreshTimersWith("Weather")
                                      ELSE refreshTimers
                  /\ inFlight' = IF runs /\ ~mock THEN InFlightWith("fetch-weather")
                                 ELSE inFlight
                  /\ weather' = IF runs /\ mock THEN <<mockWeatherData(now)>> ELSE weather
                  /\ forecast' = IF runs /\ mock
                                     THEN processForecastData(mockForecastData(now), now)
                                     ELSE forecast
    /\ UNCHANGED <<mainVars, now, forecastWeather, weatherPc, stybergVars,
                   announcementVars, worldVars, mounted, hostVars, rotationTimers,
                   weatherError, failedSinceRefresh>>

\* Weather: the refresh interval fires, fetchWeather() up to its first await,
\* or to its end with the mock data.
RefreshWeather ==
    /\ mounted
    /\ refreshTimers["Weather"] > 0
    /\ \E mock \in {UsesMockData(isDev["Weather"], WeatherUseMockData)} :
           /\ ~mock => MayInvoke
           /\ inFlight' = IF mock THEN inFlight ELSE InFlightWith("fetch-weather")
           /\ weather' = IF mock THEN <<mockWeatherData(now)>> ELSE weather
           /\ forecast' = IF mock THEN processForecastData(mockForecastData(now), now)
                          ELSE forecast
    /\ failedSinceRefresh' = FALSE
    /\ UNCHANGED <<mainVars, now, forecastWeather, weatherPc, stybergVars,
                   announcementVars, worldVars, mounted, hostVars, effectVars,
                   weatherError>>

\* An invocation of 'fetch-weather' resolves and fetchWeather goes on to its
\* second await: setWeather(currentWeather), then 'fetch-forecast' is invoked.
FetchWeatherResolves ==
    /\ mounted
    /\ inFlight["fetch-weather"] > 0
    /\ \E currentWeather \in WeatherResponses : weather' = <<currentWeather>>
    /\ inFlight' = InFlightWithForecast
    /\ UNCHANGED <<mainVars, weatherVars, stybergVars, announcementVars, worldVars,
                   mounted, hostVars, effectVars, weatherError, failedSinceRefresh>>

\* The request of 'fetch-weather' fails, the handler rethrows and fetchWeather
\* catches the rejection: setError, and 'fetch-forecast' is not invoked.
FetchWeatherRejects ==
    /\ mounted
    /\ inFlight["fetch-weather"] > 0
    /\ weatherError' = WeatherFetchError
    /\ inFlight' = InFlightAfter("fetch-weather")
    /\ failedSinceRefresh' = TRUE
    /\ UNCHANGED <<mainVars, weatherVars, stybergVars, announcementVars, worldVars,
                   mounted, hostVars, effectVars, weather>>

\* An invocation of 'fetch-forecast' resolves and fetchWeather goes on to its
\* end: setForecast(processForecastData(forecastWeather)).
FetchForecastResolves ==
    /\ mounted
    /\ inFlight["fetch-forecast"] > 0
    /\ \E list \in ForecastResponses : forecast' = processForecastData(list, now)
    /\ inFlight' = InFlightAfter("fetch-forecast")
    /\ UNCHANGED <<mainVars, now, forecastWeather, weatherPc, stybergVars,
                   announcementVars, worldVars, mounted, hostVars, effectVars,
                   weatherStateVars>>

\* The request of 'fetch-forecast' fails, the handler rethrows and
\* fetchWeather catches the rejection.
FetchForecastRejects ==
    /\ mounted
    /\ inFlight["fetch-forecast"] > 0
    /\ weatherError' = WeatherFetchError
    /\ inFlight' = InFlightAfter("fetch-forecast")
    /\ failedSinceRefresh' = TRUE
    /\ UNCHANGED <<mainVars, weatherVars, stybergVars, announcementVars, worldVars,
                   mounted, hostVars, effectVars, weather>>

FetchingNext ==
    \/ ClockAdvances
    \/ MountNews
    \/ NewsEnvironmentSettles
    \/ FetchNews
    \/ FetchNewsResolves
    \/ FetchNewsRejects
    \/ MountWeather
    \/ WeatherEnvironmentSettles
    \/ RefreshWeather
    \/ FetchWeatherResolves
    \/ FetchWeatherRejects
    \/ FetchForecastResolves
    \/ FetchForecastRejects

FetchingSpec == Init /\ [][FetchingNext]_vars

\* ------------------------------------------------------------------ claims

\* The vocabulary of the specification: a file's extension class, matched
\* without regard to case, and its stem, the name with the extension removed.
IsTextFile(file) == toLowerCase(extname(file)) = TxtExt

IsImageFile(file) == toLowerCase(extname(file)) \in ImageExts

IsRecognized(file) == IsTextFile(file) \/ IsImageFile(file)

Stem(file) == SubSeq(file, 1, Len(file) - Len(extname(file)))

\* The waiting reply is that of a news scan in which the listing and every
\* read succeeded; fsNews is the listing it scanned.
NewsScanned ==
    /\ reply.channel = "get-news-articles"
    /\ reply.listed
    /\ reply.failedRead = Undefined

\* The same for an announcements scan of fsAnnouncements.
AnnouncementsScanned ==
    /\ reply.channel = "get-announcements"
    /\ reply.listed
    /\ reply.failedRead = Undefined

\* Positions of the returned Articles that carry a given title.
ArticlesTitled(t) == {i \in 1..Len(reply.value) : reply.value[i].title = t}

RecognizedStems == {Stem(f) : f \in {g \in Range(fsNews) : IsRecognized(g)}}

\* Every extension of the listing is written in lower case (C5 is about the
\* listings where one is not).
LowerCaseExtensions == \A f \in Range(fsNews) : extname(f) = toLowerCase(extname(f))

\* C1: a completed news scan returns exactly one Article for every stem that
\* has a recognized file in the listing, and no Article for anything else;
\* stated for the listings whose extensions are in lower case.
C1_OneArticlePerStem ==
    (NewsScanned /\ LowerCaseExtensions) =>
        /\ \A st \in RecognizedStems : Cardinality(ArticlesTitled(st)) = 1
        /\ \A i \in 1..Len(reply.value) : reply.value[i].title \in RecognizedStems

\* C2: when readdir rejects, either directory handler resolves (it does not
\* reject) and resolves with the empty sequence.
C2_ListingFailureYieldsEmpty ==
    (reply.channel \in {"get-news-articles", "get-announcements"} /\ ~reply.listed)
        => (reply.settled = "resolved" /\ reply.value = <<>>)

\* C2 happens: the listing of a directory that holds a displayable
\* announcement failed.
C2_Witness ==
    /\ reply.channel = "get-announcements"
    /\ ~reply.listed
    /\ h_txt \in Range(fsAnnouncements)

\* C3: a text file and an image file of the same stem yield exactly one Article
\* for the stem, titled with the stem, with an image and with the trimmed text
\* as description.
C3_TextAndImagePair ==
    NewsScanned =>
        \A t \in Range(fsNews), m \in Range(fsNews) :
            (IsTextFile(t) /\ IsImageFile(m) /\ Stem(t) = Stem(m)) =>
                /\ Cardinality(ArticlesTitled(Stem(t))) = 1
                /\ \A i \in ArticlesTitled(Stem(t)) :
                       /\ reply.value[i].imagePath # Null
                       /\ reply.value[i].description = trim(NewsFileText(t))

\* C4: every returned Article has an image exactly when its stem has an image
\* file, and has the trimmed text of its stem's text file as description, or
\* the empty string when the stem has no text file; stated for the listings
\* whose extensions are in lower case.
C4_FieldsFollowFiles ==
    (NewsScanned /\ LowerCaseExtensions) =>
        \A i \in 1..Len(reply.value) :
            LET article == reply.value[i]
                images == {f \in Range(fsNews) : IsImageFile(f) /\ Stem(f) = article.title}
                texts == {f \in Range(fsNews) : IsTextFile(f) /\ Stem(f) = article.title}
            IN  /\ (article.imagePath # Null) <=> (images # {})
                /\ texts = {} => article.description = <<>>
                /\ texts # {} =>
                       \E t \in texts : article.description = trim(NewsFileText(t))

\* C5: a recognized file whose extension is not written in lower case is
\* grouped under its stem: the stem has one Article, titled with the stem, and
\* no Article is titled with the whole file name.
C5_UpperCaseExtension ==
    NewsScanned =>
        \A f \in Range(fsNews) :
            (IsRecognized(f) /\ extname(f) # toLowerCase(extname(f))) =>
                /\ Cardinality(ArticlesTitled(Stem(f))) = 1
                /\ ArticlesTitled(f) = {}

\* First position of the listing at which a stem occurs.
FirstStemPosition(st) ==
    CHOOSE k \in 1..Len(fsNews) :
        /\ Stem(fsNews[k]) = st
        /\ \A m \in 1..(k - 1) : Stem(fsNews[m]) # st

\* C6, as claimed: the Articles are in the order in which their stems were
\* first seen in the listing, digit-string stems included.
C6_InsertionOrder ==
    NewsScanned =>
        \A i \in 1..Len(reply.value), j \in 1..Len(reply.value) :
            (/\ i < j
             /\ reply.value[i].title \in RecognizedStems
             /\ reply.value[j].title \in RecognizedStems)
                => FirstStemPosition(reply.value[i].title)
                       < FirstStemPosition(reply.value[j].title)

\* First position of the listing whose entry the handler files under a key.
FirstKeyPosition(key) ==
    CHOOSE k \in 1..Len(fsNews) :
        /\ BaseName(fsNews[k]) = key
        /\ \A m \in 1..(k - 1) : BaseName(fsNews[m]) # key

\* The number a digit string denotes.
RECURSIVE DecimalValue(_)
DecimalValue(digits) ==
    IF digits = <<>> THEN 0
    ELSE 10 * DecimalValue(SubSeq(digits, 1, Len(digits) - 1))
             + DigitValue(digits[Len(digits)])

\* A title that names a property present on Object.prototype.
IsInheritedTitle(t) ==
    \E k \in 1..Len(objectPrototype) : NameKey(objectPrototype[k].name) = t

\* C6, amended: among the Articles whose title is not the name of a property
\* of Object.prototype, those titled with an array index come first, in
\* ascending numeric order, and the others follow in the order in which their
\* titles were first seen in the listing.
C6_PropertyOrder ==
    NewsScanned =>
        \A i \in 1..Len(reply.value), j \in 1..Len(reply.value) :
            (/\ i < j
             /\ ~IsInheritedTitle(reply.value[i].title)
             /\ ~IsInheritedTitle(reply.value[j].title))
                => LET a == reply.value[i].title
                       b == reply.value[j].title
                   IN  IF IsArrayIndex(a) /\ IsArrayIndex(b)
                       THEN DecimalValue(a) < DecimalValue(b)
                       ELSE IF IsArrayIndex(a) THEN TRUE
                       ELSE IF IsArrayIndex(b) THEN FALSE
                       ELSE FirstKeyPosition(a) < FirstKeyPosition(b)

\* C6 happens: two digit-string stems listed in descending order after a
\* stem that is no digit string, and an Article for each.
C6_Witness ==
    /\ NewsScanned
    /\ fsNews = <<a_txt, n10_txt, n2_jpg>>
    /\ Len(reply.value) = 3

\* C7: when a read rejects after the listing succeeded, the news handler
\* resolves with the empty sequence, whatever it had collected before.
C7_ReadFailureYieldsEmpty ==
    (reply.channel = "get-news-articles" /\ reply.failedRead # Undefined)
        => (reply.settled = "resolved" /\ reply.value = <<>>)

\* C7 happens: a read rejected when Articles had already been pushed.
C7_Witness ==
    /\ reply.channel = "get-news-articles"
    /\ reply.failedRead # Undefined
    /\ GetNewsArticlesTry(TRUE, fsNews, {reply.failedRead},
                          reply.protoBefore).articles # <<>>

\* C8: of two image files of the same stem, the later in the listing is the
\* one in the stem's Article, the earlier appears in no Article, and the stem
\* has exactly one Article.
C8_LaterImageWins ==
    NewsScanned =>
        \A i \in 1..Len(fsNews), j \in 1..Len(fsNews) :
            (/\ i < j
             /\ IsImageFile(fsNews[i]) /\ IsImageFile(fsNews[j])
             /\ Stem(fsNews[i]) = Stem(fsNews[j])
             /\ \A k \in (j + 1)..Len(fsNews) :
                    ~(IsImageFile(fsNews[k]) /\ Stem(fsNews[k]) = Stem(fsNews[j])))
                => /\ Cardinality(ArticlesTitled(Stem(fsNews[j]))) = 1
                   /\ \A n \in ArticlesTitled(Stem(fsNews[j])) :
                          reply.value[n].imagePath = DataUri(fsNews[j])
                   /\ \A n \in 1..Len(reply.value) :
                          reply.value[n].imagePath # DataUri(fsNews[i])

\* C9: the entries with an unrecognized extension make no difference: the scan
\* returns what a scan of the listing without them returns, and no read of
\* such an entry fails.
C9_UnrecognizedIgnored ==
    /\ NewsScanned =>
           reply.value = GetNewsArticles(TRUE, SelectSeq(fsNews, IsRecognized), {},
                                         reply.protoBefore).value
    /\ (reply.channel = "get-news-articles" /\ reply.failedRead # Undefined)
           => IsRecognized(reply.failedRead)

\* The announcements the specification asks for: the .txt files of the
\* listing whose trimmed text has 1 to 100 characters, in listing order.
IsAnnouncement(file) ==
    /\ IsTextFile(file)
    /\ Len(trim(AnnouncementFileText(file))) \in 1..MaxAnnouncementLength

ExpectedAnnouncements ==
    LET chosen == SelectSeq(fsAnnouncements, IsAnnouncement)
    IN  [i \in 1..Len(chosen) |-> [content |-> trim(AnnouncementFileText(chosen[i]))]]

\* C10: an announcements scan in which the listing and every read succeed
\* returns, in listing order, one record with the trimmed text for every .txt
\* file whose trimmed text has 1 to 100 characters, and nothing else.
C10_AnnouncementsFiltered ==
    AnnouncementsScanned => reply.value = ExpectedAnnouncements

\* C10 happens: a listing with a text of exactly 100 characters after
\* trimming, one of 101 and one of whitespace only; only the first is returned.
C10_Witness ==
    /\ AnnouncementsScanned
    /\ {c_txt, l_txt, s_txt} \subseteq Range(fsAnnouncements)
    /\ Len(reply.value) = 1
    /\ Len(reply.value[1].content) = MaxAnnouncementLength

\* --------------------------------------------------- claims: the forecast

\* The response has been processed into the forecast.
ForecastProcessed == weatherPc = "processed"

\* The UTC day numbers of the items, and those of today or later.
ItemDays == {DayFromTime(forecastWeather[i].dt) : i \in 1..Len(forecastWeather)}

QualifyingDays == {d \in ItemDays : d >= DayFromTime(now)}

\* The earliest ForecastDays of the qualifying days.
EarliestDays ==
    {d \in QualifyingDays : Cardinality({e \in QualifyingDays : e < d}) < ForecastDays}

\* The day number of a record of the forecast: the day of an item whose date
\* string is the record's date.
RecordDay(record) ==
    CHOOSE d \in ItemDays : toISODateString(d * 86400) = record.date

\* The items of a day, in input order.
ItemsOfDay(d) == SelectSeq(forecastWeather, LAMBDA item : DayFromTime(item.dt) = d)

\* C11: the forecast has a record for each of the earliest 4 UTC days of the
\* items that are today or later and for no other day (so none before today),
\* in strictly ascending order of the days, whatever the order of the items.
C11_EarliestFourDates ==
    ForecastProcessed =>
        /\ \A k \in 1..Len(forecast) :
               \E d \in EarliestDays : forecast[k].date = toISODateString(d * 86400)
        /\ \A d \in EarliestDays :
               \E k \in 1..Len(forecast) : forecast[k].date = toISODateString(d * 86400)
        /\ \A k \in 1..(Len(forecast) - 1) :
               RecordDay(forecast[k]) < RecordDay(forecast[k + 1])

\* C11 happens: items of five days from today on, with an item of today after
\* an item of a later day in the list and the year changing among the days,
\* were processed into four records.
C11_Witness ==
    /\ ForecastProcessed
    /\ Cardinality(QualifyingDays) = 5
    /\ Len(forecast) = 4
    /\ \E i \in 1..Len(forecastWeather), j \in 1..Len(forecastWeather) :
           i < j /\ forecastWeather[i].dt > forecastWeather[j].dt
                 /\ DayFromTime(forecastWeather[j].dt) = DayFromTime(now)

\* C12: the forecast has min(4, number of distinct days of today or later)
\* records, none for an empty list, and no record carries Infinity or
\* -Infinity as temperature.
C12_RecordCount ==
    ForecastProcessed =>
        /\ Len(forecast) = (IF Cardinality(QualifyingDays) < 4
                            THEN Cardinality(QualifyingDays) ELSE 4)
        /\ forecastWeather = <<>> => forecast = <<>>
        /\ \A k \in 1..Len(forecast) :
               forecast[k].temp_min.inf = 0 /\ forecast[k].temp_max.inf = 0

\* C12 happens: a list with items of two days from today on, and an item of a
\* day before today, was processed into two records.
C12_Witness ==
    /\ ForecastProcessed
    /\ Cardinality(QualifyingDays) = 2
    /\ ItemDays # QualifyingDays
    /\ Len(forecast) = 2

\* C13: temp_min and temp_max of every record are the least and the greatest
\* temperature of the items of the record's day, and temp_min <= temp_max.
C13_MinMaxOfDay ==
    ForecastProcessed =>
        \A k \in 1..Len(forecast) :
            LET temps == {item.temp : item \in Range(ItemsOfDay(RecordDay(forecast[k])))}
            IN  /\ forecast[k].temp_min.inf = 0
                /\ forecast[k].temp_max.inf = 0
                /\ forecast[k].temp_min.n \in temps
                /\ forecast[k].temp_max.n \in temps
                /\ \A t \in temps : forecast[k].temp_min.n <= t /\ t <= forecast[k].temp_max.n
                /\ forecast[k].temp_min.n <= forecast[k].temp_max.n

\* C13 happens: a day with three items whose least temperature is neither the
\* first nor the last of the day, and a day with one item, were processed.
C13_Witness ==
    /\ ForecastProcessed
    /\ \E k \in 1..Len(forecast) :
           LET items == ItemsOfDay(RecordDay(forecast[k]))
           IN  /\ Len(items) = 3
               /\ items[2].temp < items[1].temp
               /\ items[2].temp < items[3].temp
               /\ forecast[k].temp_min.n = items[2].temp
    /\ \E k \in 1..Len(forecast) : Len(ItemsOfDay(RecordDay(forecast[k]))) = 1

\* Number of items of a day with a condition label, the labels of a day and
\* the position of the first item of the day with a label.
ConditionCount(items, label) ==
    Cardinality({i \in 1..Len(items) : items[i].main = label})

ConditionsOf(items) == {items[i].main : i \in 1..Len(items)}

MostCommonConditions(items) ==
    {l \in ConditionsOf(items) :
        \A m \in ConditionsOf(items) : ConditionCount(items, m) <= ConditionCount(items, l)}

FirstOccurrence(items, label) ==
    CHOOSE i \in 1..Len(items) :
        items[i].main = label /\ \A j \in 1..(i - 1) : items[j].main # label

\* C14: the condition of every record is a label with the highest count among
\* the items of the record's day, and of several such labels the one whose
\* first occurrence in the day's items is the earliest.
C14_MostCommonCondition ==
    ForecastProcessed =>
        \A k \in 1..Len(forecast) :
            LET items == ItemsOfDay(RecordDay(forecast[k]))
            IN  /\ forecast[k].condition \in MostCommonConditions(items)
                /\ \A l \in MostCommonConditions(items) :
                       FirstOccurrence(items, forecast[k].condition)
                           <= FirstOccurrence(items, l)

\* C14 happens: a day with three items, two of one label after one of another
\* label, was processed: the record has the label that came later but is the
\* more common.
C14_Witness ==
    /\ ForecastProcessed
    /\ \E k \in 1..Len(forecast) :
           LET items == ItemsOfDay(RecordDay(forecast[k]))
           IN  /\ Len(items) = 3
               /\ items[1].main # items[2].main
               /\ items[2].main = items[3].main
               /\ forecast[k].condition = items[2].main

\* Position of the item of a day with which a label reaches a count of n.
ReachesCount(items, label, n) ==
    CHOOSE i \in 1..Len(items) :
        /\ items[i].main = label
        /\ Cardinality({j \in 1..i : items[j].main = label}) = n

\* Several labels of the day share the highest count.
IsTie(items) == Cardinality(MostCommonConditions(items)) > 1

\* C15, as claimed: of several labels that share the highest count of a day,
\* the record has the one that reaches that count first in the scan of the
\* day's items.
C15_FirstToReachMaxCount ==
    ForecastProcessed =>
        \A k \in 1..Len(forecast) :
            LET items == ItemsOfDay(RecordDay(forecast[k]))
                maxCount == ConditionCount(items, forecast[k].condition)
            IN  IsTie(items) =>
                    \A l \in MostCommonConditions(items) :
                        ReachesCount(items, forecast[k].condition, maxCount)
                            <= ReachesCount(items, l, maxCount)

\* C15, amended: of several labels that share the highest count of a day, the
\* record has the one that occurs first in the scan of the day's items: no
\* item before the first item with the record's label has a label of the
\* highest count.
C15_FirstToOccur ==
    ForecastProcessed =>
        \A k \in 1..Len(forecast) :
            LET items == ItemsOfDay(RecordDay(forecast[k]))
            IN  IsTie(items) =>
                    \E i \in 1..Len(items) :
                        /\ items[i].main = forecast[k].condition
                        /\ items[i].main \in MostCommonConditions(items)
                        /\ \A j \in 1..(i - 1) :
                               items[j].main \notin MostCommonConditions(items)

\* C15 happens: a day whose four items have two labels twice each, the label of
\* the first item being the last to reach its second occurrence, was
\* processed.
C15_Witness ==
    /\ ForecastProcessed
    /\ \E k \in 1..Len(forecast) :
           LET items == ItemsOfDay(RecordDay(forecast[k]))
           IN  /\ Len(items) = 4
               /\ IsTie(items)
               /\ items[1].main = items[4].main
               /\ items[2].main = items[3].main
               /\ forecast[k].condition = items[1].main

\* --------------------------------------------------- claims: the renderer

\* A step in which an invocation of a channel settles.
SettlesOn(channel) == inFlight'[channel] = inFlight[channel] - 1

\* What a scan of newsDir, or of announcementsDir, returns when it is the
\* first scan the main process ever makes.
FirstNewsScan(files) == GetNewsArticles(TRUE, files, {}, <<>>).value

FirstAnnouncementsScan(files) == GetAnnouncements(TRUE, files, {}).value

\* C16: an invocation of a directory handler that settles while another
\* invocation of the same handler is in flight returns the complete result of
\* its own scan, and that result, with nothing of another invocation's result
\* in it, becomes the list of the calling component (so that the list is the
\* result of the invocation that settled last).
C16_OverlappingInvocationsIndependent ==
    [][/\ (SettlesOn("get-news-articles") /\ inFlight["get-news-articles"] > 1 /\ mounted)
           => articlesState' = FirstNewsScan(fsNews)
       /\ (SettlesOn("get-announcements") /\ inFlight["get-announcements"] > 1 /\ mounted)
           => announcementsState' = FirstAnnouncementsScan(fsAnnouncements)]_vars

\* C17: at most one invocation of a channel is in flight at any time.
C17_OneInFlight == \A c \in Channels : inFlight[c] <= 1

\* C18: whatever was scanned before, an invocation of a directory handler
\* returns what the first scan ever of the directory as it is would return,
\* and the result replaces the whole list of the component.
C18_NoStateBetweenScans ==
    [][/\ (SettlesOn("get-news-articles") /\ mounted)
           => articlesState' = FirstNewsScan(fsNews)
       /\ (SettlesOn("get-announcements") /\ mounted)
           => announcementsState' = FirstAnnouncementsScan(fsAnnouncements)]_vars

\* C19: whenever the list of StybergNews or of Announcements is not empty, the
\* current index is a position of the list; stated for the runs in which no
\* scan has written to Object.prototype.
C19_IndexValid ==
    objectPrototype = <<>> =>
        /\ articlesState # <<>> =>
               (0 <= currentArticleIndex /\ currentArticleIndex < Len(articlesState))
        /\ announcementsState # <<>> =>
               (0 <= currentAnnouncementIndex
                    /\ currentAnnouncementIndex < Len(announcementsState))

\* The index after k rotation ticks on a list of n elements.
RECURSIVE AfterTicks(_, _, _)
AfterTicks(index, n, k) ==
    IF k = 0 THEN index ELSE NextIndex(AfterTicks(index, n, k - 1), n)

\* A tick on a list of n elements from a valid index moves the index one
\* position on, from n - 1 to 0, leaves the list as it is, and n ticks show
\* every position.
TickAdvances(index, indexAfter, list, listAfter) ==
    (list # <<>> /\ index < Len(list)) =>
        /\ listAfter = list
        /\ indexAfter = (index + 1) % Len(list)
        /\ (index = Len(list) - 1) => indexAfter = 0
        /\ {AfterTicks(index, Len(list), k) : k \in 1..Len(list)} = 0..(Len(list) - 1)

\* C20: in StybergNews, Announcements and WorldNews a rotation tick from a
\* valid index advances the index by one, wrapping from n - 1 to 0, with the
\* list of n >= 1 elements unchanged, so that every position is shown again
\* within n ticks.
C20_RotationWraps ==
    [][/\ RotateArticle =>
              TickAdvances(currentArticleIndex, currentArticleIndex',
                           articlesState, articlesState')
       /\ RotateAnnouncement =>
              TickAdvances(currentAnnouncementIndex, currentAnnouncementIndex',
                           announcementsState, announcementsState')
       /\ RotateWorldArticle =>
              TickAdvances(worldArticleIndex, worldArticleIndex',
                           worldArticles, worldArticles')]_vars

\* C20 happens: the three components, each with a list of two elements, have
\* been moved by their ticks to the last position, from which the next tick
\* wraps.
C20_Witness ==
    /\ mounted
    /\ Len(articlesState) = 2 /\ currentArticleIndex = 1
    /\ Len(announcementsState) = 2 /\ currentAnnouncementIndex = 1
    /\ Len(worldArticles) = 2 /\ worldArticleIndex = 1

\* ---------------------------------------------------- claims: WorldNews

\* A step that completes a fetch of WorldNews or handles an image-load error.
NewsFetchOrImageStep == FetchNewsResolves \/ FetchNewsRejects \/ HandleImageError

\* C21: in WorldNews, after a fetch has completed (resolved or rejected) or an
\* image-load error has been handled, the component never shows 'loading
\* news...': when the list is left without an article the error message is
\* shown.
C21_ErrorWhenNoArticle ==
    [][NewsFetchOrImageStep => NewsView(worldError', worldArticles') # "loading"]_vars

\* The index is a position of the list whenever the list is not empty.
WorldIndexValid(list, index) == list # <<>> => (0 <= index /\ index < Len(list))

SceneByDayOrNight(utcTime, sunrise, sunset, weatherId) ==
    IF sunrise <= utcTime /\ utcTime < sunset
        THEN OrElse(DayScenes(weatherId), "DdRBFtXUE86cx4jm")
        ELSE OrElse(NightScenes(weatherId), "f4Qkqev0L-eCm-pA")

\* Weather commits a state and renders.
WeatherRenders == <<weather, forecast, weatherError>>' # <<weather, forecast, weatherError>>

\* C23: whenever Weather renders the weather, at a time t with
\* sunrise <= t < sunset the scene is the entry of the weather id in the table
\* of the day, and at a time before sunrise or at or after sunset it is the
\* entry of the weather id in the table of the night.
C23_SceneFollowsDayAndNight ==
    [][WeatherRenders /\ WeatherView(weatherError', weather', forecast') = "weather" =>
           SplineSceneUrl(now', weather'[1].sunrise, weather'[1].sunset, weather'[1].id)
               = SceneByDayOrNight(now', weather'[1].sunrise, weather'[1].sunset,
                                   weather'[1].id)]_vars

\* ------------------------------------------------------- claims: no retry

\* The step issues a request on the channel.
Issues(channel) == inFlight'[channel] > inFlight[channel]

\* The step settles a failed request of WorldNews or of Weather.
NewsRequestFails == FetchNewsRejects

WeatherRequestFails == FetchWeatherRejects \/ FetchForecastRejects

\* C24: a failed request of 'fetch-news', 'fetch-weather' or 'fetch-forecast'
\* reaches the component as a rejection, the component records its error and
\* issues no request in answer to it, and from the failure until the
\* component's refresh interval next fires no request of the component is
\* issued.
C24_NoRequestUntilRefresh ==
    [][/\ NewsRequestFails =>
              /\ worldError' = UnavailableError
              /\ \A channel \in Channels : ~Issues(channel)
       /\ WeatherRequestFails =>
              /\ weatherError' = WeatherFetchError
              /\ \A channel \in Channels : ~Issues(channel)
       /\ Issues("fetch-news") => FetchNews \/ NewsEnvironmentSettles
       /\ (failedSinceRefresh /\ (Issues("fetch-weather") \/ Issues("fetch-forecast"))) =>
              RefreshWeather]_vars

\* ------------------------------------------------- claims: Weather's error

\* C25: once a failed fetch has set the error state of Weather no step
\* changes it, and the mounted component renders the error view in every
\* later state, whatever later fetches of the weather and of the forecast
\* bring.
C25_ErrorIsNeverCleared ==
    [][weatherError # Null =>
           /\ weatherError' = weatherError
           /\ mounted' => WeatherView(weatherError', weather', forecast') = "error"]_vars

\* C25 happens: after a failed fetch the refresh interval fired, and the
\* requests of the weather and of the forecast it issued both resolved.
C25_Witness ==
    /\ mounted
    /\ weatherError = WeatherFetchError
    /\ ~failedSinceRefresh
    /\ inFlight["fetch-weather"] = 0
    /\ inFlight["fetch-forecast"] = 0
    /\ weather # <<>>
    /\ forecast # <<>>
    /\ WeatherView(weatherError, weather, forecast) = "error"

\* --------------------------------------------- claims: the environment gate

\* The channels on which a component of EnvironmentComponents issues requests.
ChannelsOf(c) == IF c = "News" THEN {"fetch-news"} ELSE {"fetch-weather", "fetch-forecast"}

\* The component holds nothing but its initial data: no article, weather or
\* forecast, and no error.
HoldsNoData(c) ==
    IF c = "News"
        THEN worldArticles = <<>> /\ worldError = Null
        ELSE weather = <<>> /\ forecast = <<>> /\ weatherError = Null

\* C26: while 'fetch-environment' has not resolved with a non-null value for
\* Weather or WorldNews, the component has issued no request, runs no refresh
\* timer and holds no data; a failed 'fetch-environment' leaves the component
\* in that state for good; and mock data is on display only in a component
\* whose environment value is true and whose useMockData flag is true.
C26_NothingBeforeEnvironment ==
    /\ \A c \in EnvironmentComponents :
           /\ environment[c] # "resolved" => isDev[c] = Null
           /\ isDev[c] = Null =>
                  /\ \A channel \in ChannelsOf(c) : inFlight[channel] = 0
                  /\ refreshTimers[c] = 0
                  /\ HoldsNoData(c)
    /\ worldArticles = MockArticles => isDev["News"] = JsTrue /\ NewsUseMockData
    /\ (\E t \in Range(Instants) : weather = <<mockWeatherData(t)>>) =>
           isDev["Weather"] = JsTrue /\ WeatherUseMockData

\* C26 happens: the environment request of WorldNews failed and that of
\* Weather resolved with true, Weather shows its mock data and WorldNews has
\* done nothing.
C26_Witness ==
    /\ environment["News"] = "rejected"
    /\ environment["Weather"] = "resolved"
    /\ isDev["Weather"] = JsTrue
    /\ weather = <<mockWeatherData(now)>>
    /\ inFlight["fetch-news"] = 0
    /\ refreshTimers["News"] = 0
    /\ refreshTimers["Weather"] = 1

\* ------------------------------------------------------ claims: the timers

\* The components that rotate through a list, and the list state of each.
ListComponents == {"StybergNews", "Announcements", "News"}

ListOf(c) ==
    IF c = "StybergNews" THEN articlesState
    ELSE IF c = "Announcements" THEN announcementsState
    ELSE worldArticles

\* C27: StybergNews, Announcements and WorldNews each have at most one active
\* rotation interval, whatever the number of changes of the list; none is
\* active while the list is empty; and once the application is unmounted no
\* rotation and no refresh interval of the three is left.
C27_OneRotationTimer ==
    \A c \in ListComponents :
        /\ rotationTimers[c] <= 1
        /\ ListOf(c) = <<>> => rotationTimers[c] = 0
        /\ ~mounted => rotationTimers[c] = 0 /\ refreshTimers[c] = 0

\* C27 happens: each of the three lists was replaced by a non-empty list,
\* that of WorldNews twice (a fetch, then an image-load error), and each
\* component rotates on one interval.
C27_Witness ==
    /\ mounted
    /\ worldArticles = <<ArticleTwo>>
    /\ \A c \in ListComponents : ListOf(c) # <<>> /\ rotationTimers[c] = 1

\* ------------------------------------------------ claims: 'fetch-news'

\* A string that is present and has at least one character.
NonEmpty(s) == s # Null /\ Len(s) > 0

\* The article has a non-empty title, an image URL that starts with 'http'
\* and a non-empty description of at most 400 characters.
IsPresentable(article) ==
    /\ NonEmpty(article.title)
    /\ article.image # Null
    /\ Len(article.image) >= 4
    /\ \A i \in 1..4 : article.image[i] = <<"h", "t", "t", "p">>[i]
    /\ NonEmpty(article.description)
    /\ Len(article.description) <= 400

\* The positions of the presentable articles of a response, and the k-th of
\* them.
PresentablePositions(data) == {i \in 1..Len(data) : IsPresentable(data[i])}

PresentablePosition(data, k) ==
    CHOOSE i \in PresentablePositions(data) :
        Cardinality({j \in PresentablePositions(data) : j <= i}) = k

\* C28: what 'fetch-news' resolves with holds presentable articles only, and
\* it holds every presentable article of the response, in the order of the
\* response.
C28_PresentableArticlesReturned ==
    (reply.channel = "fetch-news" /\ reply.settled = "resolved") =>
        /\ \A k \in 1..Len(reply.value) : IsPresentable(reply.value[k])
        /\ Len(reply.value) = Cardinality(PresentablePositions(newsResponse.data))
        /\ \A k \in 1..Len(reply.value) :
               reply.value[k] = newsResponse.data[PresentablePosition(newsResponse.data, k)]

\* C28 happens: of a response of three articles the handler dropped the
\* second, whose description has 401 characters, and returned the two others
\* in their order, the one with a description of 400 characters first.
C28_Witness ==
    /\ reply.channel = "fetch-news"
    /\ reply.settled = "resolved"
    /\ Len(newsResponse.data) = 3
    /\ Len(newsResponse.data[1].description) = 400
    /\ Len(newsResponse.data[2].description) = 401
    /\ reply.value = <<newsResponse.data[1], newsResponse.data[3]>>
    /\ newsResponse.data[1] # newsResponse.data[3]

====
